---- MODULE Spec2Model ----
(***************************************************************************)
(* Hatch-Validator: the dependency graph, the differential registry        *)
(* reconstruction, the dependency validation strategies (schema v1.1.0 and *)
(* v1.2.0), the schema-version validator chain, the registry version       *)
(* selection and the caching registry client.                              *)
(*                                                                         *)
(* The module holds six components.  The variable `area` names the one a   *)
(* behaviour exercises; the variables of the other components keep their   *)
(* idle values.                                                            *)
(***************************************************************************)
EXTENDS Integers, Sequences, FiniteSets, TLC

VARIABLES
    area,            \* which component the behaviour exercises
    adjacency_list,  \* DependencyGraph.adjacency_list: dict name -> [name]
    g_ret,           \* what the last query on the graph returned
    held,            \* the dicts the graph's caller keeps a reference to
    versions,        \* registry: the "versions" list of one package
    rc_ret,          \* what the last reconstruction returned
    context,         \* ValidationContext and the world a validation reads
    dv_ret,          \* what the last validate_dependencies call did
    dependency_resolver,  \* DependencyValidation.dependency_resolver: the
                     \* resolver the strategy instance keeps (NoRet for None)
    sv_ret,          \* what the last run of the validator chain did
    package_data,    \* registry: one package's latest_version and versions
    fc_ret,          \* what the last version selection returned
    cached_client,   \* CachedRegistryClient: its caches and its base client
    registry_file,   \* what is at the base client's registry_file_path
    looked_up,       \* history: the names looked up since the cache was last
                     \* reset, with what the base client answered then
    cr_ret           \* what the last call on the cached client did

vars == <<area, adjacency_list, g_ret, held, versions, rc_ret, context, dv_ret,
          dependency_resolver, sv_ret, package_data, fc_ret, cached_client,
          registry_file, looked_up, cr_ret>>
cacheVars == <<cached_client, registry_file, looked_up, cr_ret>>
selectVars == <<package_data, fc_ret>>
graphVars == <<adjacency_list, g_ret, held>>
reconVars == <<versions, rc_ret>>
depsVars == <<context, dv_ret, dependency_resolver>>

(***************************************************************************)
(* Bounds                                                                  *)
(***************************************************************************)
NumNodes == 3
MaxEdges == 4

MaxVersions == 3
MaxDelta == 1

MaxDecls == 2
MaxChain == 2
MaxListed == 2
RecursionLimit == 3

NodeNames == <<"A", "B", "C", "D", "E", "F">>
Nodes == {NodeNames[i] : i \in 1..NumNodes}

(***************************************************************************)
(* Helpers on sequences and dicts                                          *)
(***************************************************************************)
Range(s) == {s[i] : i \in DOMAIN s}

EmptyDict == [k \in {} |-> <<>>]

\* All sequences over S of length at most n.
SeqsUpTo(S, n) == UNION {[1..k -> S] : k \in 0..n}

\* A seeded fault: the slice of the path starts at the path's first name.
IndexOf_path_start(s, x) == CHOOSE i \in 1..Len(s) : \A j \in 1..Len(s) : i <= j

\* list.index(x): the first position of x.
IndexOf(s, x) == CHOOSE i \in 1..Len(s) : s[i] = x /\ \A j \in 1..(i - 1) : s[j] # x

\* All permutations of a finite set, as sequences.
Perms(S) == {p \in [1..Cardinality(S) -> S] : \A i, j \in DOMAIN p : i # j => p[i] # p[j]}

(***************************************************************************)
(* DependencyGraph                                                         *)
(***************************************************************************)
\* self.adjacency_list.get(node, [])
Get(adj, node) == IF node \in DOMAIN adj THEN adj[node] ELSE <<>>

get_all_packages(adj) == DOMAIN adj \cup UNION {Range(adj[k]) : k \in DOMAIN adj}

RECURSIVE SumLens(_, _)
SumLens(adj, K) ==
    IF K = {} THEN 0
    ELSE LET k == CHOOSE x \in K : TRUE IN Len(adj[k]) + SumLens(adj, K \ {k})

EdgeCount(adj) == SumLens(adj, DOMAIN adj)

\* The dicts a caller can hand to the constructor: any keys, any lists
\* (duplicates included), at most `budget` list entries in all.
RECURSIVE DictsOver(_, _)
DictsOver(K, budget) ==
    IF K = {} THEN {EmptyDict}
    ELSE LET k == CHOOSE x \in K : TRUE
         IN  DictsOver(K \ {k}, budget)
             \cup UNION {{(k :> s) @@ d : d \in DictsOver(K \ {k}, budget - Len(s))}
                         : s \in SeqsUpTo(Nodes, budget)}

ConstructorDicts == DictsOver(Nodes, MaxEdges)

\* A seeded fault: the dependency is appended without looking for it.
add_dependency_dict_append(adj, package, dependency) ==
    LET a1 == IF package \in DOMAIN adj THEN adj ELSE (package :> <<>>) @@ adj
    IN  [a1 EXCEPT ![package] = Append(@, dependency)]

add_dependency_dict(adj, package, dependency) ==
    LET a1 == IF package \in DOMAIN adj THEN adj ELSE (package :> <<>>) @@ adj
    IN  IF dependency \in Range(a1[package]) THEN a1
        ELSE [a1 EXCEPT ![package] = Append(@, dependency)]

add_package_dict(adj, package) ==
    IF package \in DOMAIN adj THEN adj ELSE (package :> <<>>) @@ adj

\* colors = defaultdict(int); cycles = []; path = []
DfsStart(adj) ==
    [colors |-> [n \in get_all_packages(adj) |-> 0], path |-> <<>>, cycles |-> <<>>]

\* The nested dfs(node) of detect_cycles; its boolean result is ignored by
\* every caller, so only its effect on colors, path and cycles is kept.
RECURSIVE dfs(_, _, _), dfs_deps(_, _, _, _)
dfs(adj, node, st) ==
    IF st.colors[node] = 1
    THEN LET cycle_start == IndexOf(st.path, node)
             cycle == SubSeq(st.path, cycle_start, Len(st.path)) \o <<node>>
         IN  [st EXCEPT !.cycles = Append(@, cycle)]
    ELSE IF st.colors[node] = 2
    THEN st
    ELSE LET s1 == [st EXCEPT !.colors[node] = 1, !.path = Append(@, node)]
             s2 == dfs_deps(adj, Get(adj, node), 1, s1)
         IN  [s2 EXCEPT !.colors[node] = 2, !.path = SubSeq(@, 1, Len(@) - 1)]

\* for dep in self.adjacency_list.get(node, []): dfs(dep)
dfs_deps(adj, deps, i, st) ==
    IF i > Len(deps) THEN st
    ELSE dfs_deps(adj, deps, i + 1, dfs(adj, deps[i], st))

\* A seeded fault: the scan of the start nodes ends at the first cycle found.
RECURSIVE scan_roots_first_only(_, _, _, _)
scan_roots_first_only(adj, order, i, st) ==
    IF i > Len(order) \/ st.cycles # <<>> THEN st
    ELSE scan_roots_first_only(adj, order, i + 1,
            IF st.colors[order[i]] = 0 THEN dfs(adj, order[i], st) ELSE st)

\* for package in self.get_all_packages(): if colors[package] == 0: dfs(package)
\* `order` is the order in which the set yields its elements.
RECURSIVE scan_roots(_, _, _, _)
scan_roots(adj, order, i, st) ==
    IF i > Len(order) THEN st
    ELSE scan_roots(adj, order, i + 1,
            IF st.colors[order[i]] = 0 THEN dfs(adj, order[i], st) ELSE st)

detect_cycles(adj, order) ==
    LET st == scan_roots(adj, order, 1, DfsStart(adj))
    IN  [has_cycles |-> Len(st.cycles) > 0, cycles |-> st.cycles]

\* in_degree after the two loops of topological_sort: one count for every
\* entry of every list (a name listed twice counts twice).
in_degree_of(adj) ==
    [n \in get_all_packages(adj) |->
        Cardinality({ki \in UNION {{<<k, i>> : i \in DOMAIN adj[k]} : k \in DOMAIN adj} :
                        adj[ki[1]][ki[2]] = n})]

\* A seeded fault: a dependency is queued at every decrement of its count.
RECURSIVE remove_edges_eager(_, _, _)
remove_edges_eager(deps, i, st) ==
    IF i > Len(deps) THEN st
    ELSE remove_edges_eager(deps, i + 1,
            [st EXCEPT !.in_degree[deps[i]] = @ - 1, !.queue = Append(@, deps[i])])

\* for dep in self.adjacency_list.get(current, []): in_degree[dep] -= 1;
\* if in_degree[dep] == 0: queue.append(dep)
RECURSIVE remove_edges(_, _, _)
remove_edges(deps, i, st) ==
    IF i > Len(deps) THEN st
    ELSE LET d == st.in_degree[deps[i]] - 1
             s1 == [st EXCEPT !.in_degree[deps[i]] = d]
         IN  remove_edges(deps, i + 1,
                 IF d = 0 THEN [s1 EXCEPT !.queue = Append(@, deps[i])] ELSE s1)

\* while queue: current = queue.popleft(); result.append(current); ...
RECURSIVE kahn(_, _)
kahn(adj, st) ==
    IF st.queue = <<>> THEN st
    ELSE LET current == Head(st.queue)
             s1 == [st EXCEPT !.queue = Tail(@), !.result = Append(@, current)]
         IN  kahn(adj, remove_edges(Get(adj, current), 1, s1))

\* topological_sort(): order is the order in which the set of packages
\* yields its elements.  detect_cycles and the queue iterate two sets that the
\* same statements build from the same dict, hence in the same order.
topological_sort(adj, order) ==
    IF detect_cycles(adj, order).has_cycles
    THEN [ok |-> FALSE, result |-> <<>>]
    ELSE LET deg == in_degree_of(adj)
             Zero(n) == deg[n] = 0
             st == kahn(adj, [in_degree |-> deg, result |-> <<>>,
                              queue |-> SelectSeq(order, Zero)])
         IN  [ok |-> Len(st.result) = Cardinality(get_all_packages(adj)),
              result |-> st.result]

NoRet == [op |-> "none"]

\* What find_dependency_path returns: a path, or None.
NoPath == [found |-> FALSE, path |-> <<>>]
Path(p) == [found |-> TRUE, path |-> p]

\* current, path = queue.popleft()
popleft(queue) == [item |-> Head(queue), rest |-> Tail(queue)]

\* The for loop of find_dependency_path over the dependencies of current,
\* from dependency i on: st is [queue, visited, ret], ret the value returned
\* from inside the loop (NoPath while nothing was returned).
RECURSIVE scan_deps(_, _, _, _, _)
scan_deps(deps, i, path, target, st) ==
    IF i > Len(deps) THEN st
    ELSE IF deps[i] = target THEN [st EXCEPT !.ret = Path(Append(path, deps[i]))]
    ELSE IF deps[i] \notin st.visited
    THEN scan_deps(deps, i + 1, path, target,
             [st EXCEPT !.visited = @ \cup {deps[i]},
                        !.queue = Append(@, <<deps[i], Append(path, deps[i])>>)])
    ELSE scan_deps(deps, i + 1, path, target, st)

\* while queue: ...
RECURSIVE bfs(_, _, _)
bfs(adj, target, st) ==
    IF st.queue = <<>> THEN NoPath
    ELSE LET q == popleft(st.queue)
             s1 == scan_deps(Get(adj, q.item[1]), 1, q.item[2], target,
                             [st EXCEPT !.queue = q.rest])
         IN  IF s1.ret.found THEN s1.ret ELSE bfs(adj, target, s1)

\* A seeded fault: a depth-first search that returns the first path it
\* completes.
RECURSIVE dfs_path(_, _, _, _, _)
dfs_path(adj, deps, i, path, target) ==
    IF i > Len(deps) THEN NoPath
    ELSE IF deps[i] = target THEN Path(Append(path, deps[i]))
    ELSE LET r == IF deps[i] \in Range(path) THEN NoPath
                  ELSE dfs_path(adj, Get(adj, deps[i]), 1, Append(path, deps[i]), target)
         IN  IF r.found THEN r ELSE dfs_path(adj, deps, i + 1, path, target)

find_dependency_path_dfs(adj, start, target) ==
    IF start = target THEN Path(<<start>>)
    ELSE dfs_path(adj, Get(adj, start), 1, <<start>>, target)

find_dependency_path(adj, start, target) ==
    IF start = target THEN Path(<<start>>)
    ELSE bfs(adj, target, [queue |-> <<<<start, <<start>>>>>>, visited |-> {start},
                           ret |-> NoPath])

\* for dep in self.adjacency_list.get(current, []): if dep not in visited:
\* stack.append(dep)
RECURSIVE push_deps(_, _, _, _)
push_deps(deps, i, visited, stack) ==
    IF i > Len(deps) THEN stack
    ELSE push_deps(deps, i + 1, visited,
                   IF deps[i] \notin visited THEN Append(stack, deps[i]) ELSE stack)

\* while stack: current = stack.pop(); ...
RECURSIVE closure(_, _, _)
closure(adj, stack, visited) ==
    IF stack = <<>> THEN visited
    ELSE LET current == stack[Len(stack)]
             rest == SubSeq(stack, 1, Len(stack) - 1)
         IN  IF current \in visited THEN closure(adj, rest, visited)
             ELSE closure(adj, push_deps(Get(adj, current), 1, visited \cup {current}, rest),
                          visited \cup {current})

\* A seeded fault: the starting package is left in the result.
discard_nothing(visited, package) == visited

\* visited.discard(package)
discard(visited, package) == visited \ {package}

\* get_all_dependencies(package); order is the order in which detect_cycles
\* iterates the set of packages.
get_all_dependencies(adj, package, order) ==
    IF detect_cycles(adj, order).has_cycles
    THEN [raised |-> "DependencyGraphError", result |-> {}]
    ELSE [raised |-> "", result |-> discard(closure(adj, <<package>>, {}), package)]

(***************************************************************************)
(* The dicts the caller holds.  held is NoRet when the caller keeps no     *)
(* reference; otherwise it says how the graph was made, what the caller's  *)
(* dict `dependencies` holds now, whether the graph's dict is that very    *)
(* dict, and what the dict that to_dict returned holds now.                *)
(***************************************************************************)
MadeBy == {"constructor", "from_dependency_dict"}

\* __init__: self.adjacency_list = adjacency_list or {} keeps the caller's
\* own dict unless it is empty; from_dependency_dict hands dict(dependencies),
\* a new dict, to the constructor.
same_dict(made_by, d) == made_by = "constructor" /\ d # EmptyDict

\* What a dict holds after the graph changed to adj.  The graph's own dict
\* holds adj.  A copy made by dict(d) or d.copy() has its own keys and, for
\* each, the list object the graph has: add_dependency extends that object
\* in place (self.adjacency_list[package] += [dependency]).
as_seen(view, same, adj) == IF same THEN adj ELSE [k \in DOMAIN view |-> adj[k]]

held_after(h, adj) ==
    IF h = NoRet THEN h
    ELSE [h EXCEPT !.dependencies = as_seen(@, h.same, adj),
                   !.returned.dict = as_seen(@, FALSE, adj)]

(***************************************************************************)
(* Graph component: state machine                                          *)
(***************************************************************************)

IdleGraph == adjacency_list = EmptyDict /\ g_ret = NoRet /\ held = NoRet
IdleRecon == versions = <<>> /\ rc_ret = NoRet
IdleDeps == context = NoRet /\ dv_ret = NoRet /\ dependency_resolver = NoRet
IdleChain == sv_ret = NoRet
IdleSelect == package_data = NoRet /\ fc_ret = NoRet
IdleCache ==
    cached_client = NoRet /\ registry_file = NoRet /\ looked_up = NoRet /\ cr_ret = NoRet

InitGraph ==
    /\ area = "graph"
    /\ adjacency_list \in ConstructorDicts
    /\ g_ret = NoRet
    /\ held = NoRet
    /\ IdleRecon /\ IdleDeps /\ IdleChain /\ IdleSelect /\ IdleCache

\* add_package(package); it returns nothing.
add_package ==
    /\ area = "graph"
    /\ \E p \in Nodes :
           adjacency_list' = add_package_dict(adjacency_list, p)
    /\ held' = held_after(held, adjacency_list')
    /\ g_ret' = NoRet
    /\ UNCHANGED <<area, cacheVars, selectVars, reconVars, depsVars, sv_ret>>

\* add_dependency(package, dependency); it returns nothing.
add_dependency ==
    /\ area = "graph"
    /\ EdgeCount(adjacency_list) < MaxEdges
    /\ \E p \in Nodes, d \in Nodes :
           adjacency_list' = add_dependency_dict(adjacency_list, p, d)
    /\ held' = held_after(held, adjacency_list')
    /\ g_ret' = NoRet
    /\ UNCHANGED <<area, cacheVars, selectVars, reconVars, depsVars, sv_ret>>

\* detect_cycles(); g_ret holds the returned pair and the order in which
\* the set of packages was iterated.
DetectCycles ==
    /\ area = "graph"
    /\ g_ret = NoRet
    /\ \E order \in Perms(get_all_packages(adjacency_list)) :
           LET r == detect_cycles(adjacency_list, order)
           IN  g_ret' = [op |-> "detect_cycles", order |-> order,
                         has_cycles |-> r.has_cycles, cycles |-> r.cycles]
    /\ UNCHANGED <<area, cacheVars, selectVars, adjacency_list, held, reconVars, depsVars, sv_ret>>

\* topological_sort(); g_ret holds the returned pair.
TopologicalSort ==
    /\ area = "graph"
    /\ g_ret = NoRet
    /\ \E order \in Perms(get_all_packages(adjacency_list)) :
           LET r == topological_sort(adjacency_list, order)
           IN  g_ret' = [op |-> "topological_sort", ok |-> r.ok, result |-> r.result]
    /\ UNCHANGED <<area, cacheVars, selectVars, adjacency_list, held, reconVars, depsVars, sv_ret>>

\* find_dependency_path(start, target); g_ret holds what it returned.
FindDependencyPath ==
    /\ area = "graph"
    /\ g_ret = NoRet
    /\ \E start \in Nodes, target \in Nodes :
           LET r == find_dependency_path(adjacency_list, start, target)
           IN  g_ret' = [op |-> "find_dependency_path", start |-> start,
                         target |-> target, found |-> r.found, path |-> r.path]
    /\ UNCHANGED <<area, cacheVars, selectVars, adjacency_list, held, reconVars, depsVars, sv_ret>>

\* get_all_dependencies(package); g_ret holds the set returned or the
\* exception raised.
GetAllDependencies ==
    /\ area = "graph"
    /\ g_ret = NoRet
    /\ \E package \in Nodes, order \in Perms(get_all_packages(adjacency_list)) :
           LET r == get_all_dependencies(adjacency_list, package, order)
           IN  g_ret' = [op |-> "get_all_dependencies", package |-> package,
                         raised |-> r.raised, result |-> r.result]
    /\ UNCHANGED <<area, cacheVars, selectVars, adjacency_list, held, reconVars, depsVars, sv_ret>>

\* The caller drops the value a query returned.
DropResult ==
    /\ area = "graph"
    /\ g_ret # NoRet
    /\ g_ret' = NoRet
    /\ UNCHANGED <<area, cacheVars, selectVars, adjacency_list, held, reconVars, depsVars, sv_ret>>

NextGraph ==
    \/ add_package
    \/ add_dependency
    \/ DetectCycles
    \/ TopologicalSort
    \/ FindDependencyPath
    \/ GetAllDependencies
    \/ DropResult

SpecGraph == InitGraph /\ [][NextGraph]_vars

\* DependencyGraph(): the graph starts empty.
InitEmpty ==
    /\ area = "graph"
    /\ adjacency_list = EmptyDict
    /\ g_ret = NoRet
    /\ held = NoRet
    /\ IdleRecon /\ IdleDeps /\ IdleChain /\ IdleSelect /\ IdleCache

SpecEmpty == InitEmpty /\ [][NextGraph]_vars

\* DependencyGraph(dependencies) or DependencyGraph.from_dependency_dict(
\* dependencies), the caller keeping its dict.
InitHeld ==
    /\ area = "graph"
    /\ adjacency_list \in ConstructorDicts
    /\ g_ret = NoRet
    /\ held \in {[made_by |-> m, dependencies |-> adjacency_list,
                  same |-> same_dict(m, adjacency_list),
                  returned |-> [taken |-> FALSE, dict |-> EmptyDict]] : m \in MadeBy}
    /\ IdleRecon /\ IdleDeps /\ IdleChain /\ IdleSelect /\ IdleCache

\* to_dict(): the caller keeps the dict returned, self.adjacency_list.copy().
to_dict ==
    /\ area = "graph"
    /\ held # NoRet
    /\ held' = [held EXCEPT !.returned = [taken |-> TRUE, dict |-> adjacency_list]]
    /\ UNCHANGED <<area, cacheVars, selectVars, adjacency_list, g_ret, reconVars, depsVars, sv_ret>>

NextHeld ==
    \/ add_package
    \/ add_dependency
    \/ to_dict

SpecHeld == InitHeld /\ [][NextHeld]_vars


(***************************************************************************)
(* Registry: differential storage and its reconstruction                   *)
(*                                                                         *)
(* A version entry is [version, base_version, added, removed, modified];   *)
(* versions are numbered, base_version 0 stands for an absent (or None)    *)
(* base_version, and MaxVersions + 1 is a version no entry carries.  A     *)
(* dependency is [name, version_constraint].  The python_dependencies and  *)
(* compatibility fields are replayed by the same code, list for list, and  *)
(* are left out.                                                           *)
(***************************************************************************)
DepNames == {"D1", "D2"}
Constraints == {">=1", ">=2"}
Deps == [name : DepNames, version_constraint : Constraints]

MissingVersion == MaxVersions + 1

\* The added / removed / modified lists of one entry: at most MaxDelta items.
Deltas ==
    {d \in [added : SeqsUpTo(Deps, MaxDelta),
            removed : SeqsUpTo(DepNames, MaxDelta),
            modified : SeqsUpTo(Deps, MaxDelta)] :
        Len(d.added) + Len(d.removed) + Len(d.modified) <= MaxDelta}

EntriesFor(v) ==
    {[version |-> v, base_version |-> b,
      added |-> d.added, removed |-> d.removed, modified |-> d.modified] :
        b \in 0..MissingVersion, d \in Deltas}

\* The registries read: MaxVersions entries with distinct versions, in list
\* order; base_version pointers are arbitrary (forward, backward, to itself,
\* to a version that is not there).
Registries == {r \in [1..MaxVersions -> UNION {EntriesFor(v) : v \in 1..MaxVersions}] :
                  \A i \in 1..MaxVersions : r[i].version = i}

\* for ver in package_versions: if ver.get("version") == base_version: ...
\* The position of the first entry with that version, 0 when there is none.
FindVersion(vs, v) ==
    IF \E i \in 1..Len(vs) : vs[i].version = v
    THEN CHOOSE i \in 1..Len(vs) : vs[i].version = v /\ \A j \in 1..(i - 1) : vs[j].version # v
    ELSE 0

\* registry_accessor.py, the while loop that collects version_chain (newest
\* first).  cur is the position of current_version, 0 for None.  A chain
\* longer than the list of entries has met some entry twice: the pointers
\* loop and the while loop never ends.
RECURSIVE walk_accessor(_, _, _)
walk_accessor(vs, cur, chain) ==
    IF cur = 0 THEN [diverges |-> FALSE, chain |-> chain]
    ELSE IF Len(chain) >= Len(vs) THEN [diverges |-> TRUE, chain |-> chain]
    ELSE LET chain1 == Append(chain, cur)
             base_version == vs[cur].base_version
         IN  IF base_version = 0
             THEN [diverges |-> FALSE, chain |-> chain1]
             ELSE walk_accessor(vs, FindVersion(vs, base_version), chain1)

Reverse(s) == [i \in 1..Len(s) |-> s[Len(s) + 1 - i]]

\* reconstructed["hatch_dependencies"] = [d for d in ... if d.get("name") != dep_name]
remove_by_name(lst, dep_name) ==
    LET Keep(d) == d.name # dep_name IN SelectSeq(lst, Keep)

\* for i, dep in enumerate(lst): if dep.name == mod_dep.name: lst[i] = mod_dep; break
modify_first(lst, mod_dep) ==
    IF \E i \in 1..Len(lst) : lst[i].name = mod_dep.name
    THEN LET i == CHOOSE k \in 1..Len(lst) :
                      lst[k].name = mod_dep.name /\ \A j \in 1..(k - 1) : lst[j].name # mod_dep.name
         IN  [lst EXCEPT ![i] = mod_dep]
    ELSE lst

RECURSIVE fold_remove(_, _, _), fold_modify(_, _, _)
fold_remove(lst, names, i) ==
    IF i > Len(names) THEN lst ELSE fold_remove(remove_by_name(lst, names[i]), names, i + 1)

fold_modify(lst, mods, i) ==
    IF i > Len(mods) THEN lst ELSE fold_modify(modify_first(lst, mods[i]), mods, i + 1)

\* One entry applied to the list: added (appended), removed, modified.
apply_entry_list(lst, ver) ==
    fold_modify(fold_remove(lst \o ver.added, ver.removed, 1), ver.modified, 1)

\* for ver in reversed(version_chain): ...   (chain is newest first)
RECURSIVE replay_list(_, _, _, _)
replay_list(vs, chain, i, lst) ==
    IF i < 1 THEN lst
    ELSE replay_list(vs, chain, i - 1, apply_entry_list(lst, vs[chain[i]]))

\* RegistryAccessor._reconstruct_package_version (registry/v1_1_0)
reconstruct_accessor(vs, v) ==
    LET w == walk_accessor(vs, v, <<>>)
    IN  IF w.diverges THEN [status |-> "diverges"]
        ELSE [status |-> "ok", chain |-> Reverse(w.chain),
              hatch_dependencies |-> replay_list(vs, w.chain, Len(w.chain), <<>>)]

\* RegistryAccessorV1_1_0._reconstruct_package_version (utils/registry_client):
\* the same statements, line for line.
reconstruct_client(vs, v) ==
    LET w == walk_accessor(vs, v, <<>>)
    IN  IF w.diverges THEN [status |-> "diverges"]
        ELSE [status |-> "ok", chain |-> Reverse(w.chain),
              hatch_dependencies |-> replay_list(vs, w.chain, Len(w.chain), <<>>)]

\* DependencyResolver._get_version_chain: chain = [version_data]; while the
\* current entry names a base: the first entry with that version is added, or
\* the error is logged and the loop left.  Newest first, reversed at the end.
RECURSIVE walk_resolver(_, _, _)
walk_resolver(vs, cur, chain) ==
    IF Len(chain) > Len(vs) THEN [diverges |-> TRUE, chain |-> chain]
    ELSE LET base_version == vs[cur].base_version
             found == FindVersion(vs, base_version)
         IN  IF base_version = 0 THEN [diverges |-> FALSE, chain |-> chain]
             ELSE IF found = 0 THEN [diverges |-> FALSE, chain |-> chain]
             ELSE walk_resolver(vs, found, Append(chain, found))

\* dependencies[dep["name"]] = constraint: a dict in insertion order, kept as
\* a list of [name, version_constraint] with distinct names.
dict_set(lst, dep) ==
    IF \E i \in 1..Len(lst) : lst[i].name = dep.name
    THEN modify_first(lst, dep)
    ELSE Append(lst, dep)

RECURSIVE fold_set(_, _, _), fold_set_present(_, _, _)
fold_set(lst, deps, i) ==
    IF i > Len(deps) THEN lst ELSE fold_set(dict_set(lst, deps[i]), deps, i + 1)

\* if dep["name"] in dependencies: dependencies[dep["name"]] = ...
fold_set_present(lst, deps, i) ==
    IF i > Len(deps) THEN lst ELSE fold_set_present(modify_first(lst, deps[i]), deps, i + 1)

apply_entry_dict(lst, ver) ==
    fold_set_present(fold_remove(fold_set(lst, ver.added, 1), ver.removed, 1), ver.modified, 1)

\* for ver in version_chain: ...   (chain is oldest first)
RECURSIVE replay_dict(_, _, _, _)
replay_dict(vs, chain, i, lst) ==
    IF i > Len(chain) THEN lst
    ELSE replay_dict(vs, chain, i + 1, apply_entry_dict(lst, vs[chain[i]]))

\* DependencyResolver._reconstruct_dependencies
reconstruct_resolver(vs, v) ==
    LET w == walk_resolver(vs, v, <<v>>)
        chain == Reverse(w.chain)
    IN  IF w.diverges THEN [status |-> "diverges"]
        ELSE [status |-> "ok", chain |-> chain,
              hatch_dependencies |-> replay_dict(vs, chain, 1, <<>>)]

Implementations == {"accessor", "client", "resolver"}

reconstruct(impl, vs, v) ==
    CASE impl = "accessor" -> reconstruct_accessor(vs, v)
      [] impl = "client" -> reconstruct_client(vs, v)
      [] impl = "resolver" -> reconstruct_resolver(vs, v)

\* A seeded fault: the record's list is the "added" list of the oldest entry
\* of the chain itself, not a new list.
new_list_aliased(vs, chain) == IF chain = <<>> THEN 0 ELSE chain[1]

\* "hatch_dependencies": [] / dependencies = {}: the object the replay writes
\* to.  0 is an object made by the call; i > 0 is the "added" list of entry i.
new_list(vs, chain) == 0

\* The registry once the replay has written lst to its target object.
written_back(vs, target, lst) ==
    IF target = 0 THEN vs ELSE [vs EXCEPT ![target].added = lst]

\* The registry data as one call of reconstruct leaves it.
registry_after(impl, vs, v) ==
    LET r == reconstruct(impl, vs, v)
    IN  IF r.status = "ok"
        THEN written_back(vs, new_list(vs, r.chain), r.hatch_dependencies)
        ELSE vs

InitRecon ==
    /\ area = "recon"
    /\ versions \in Registries
    /\ rc_ret = NoRet
    /\ IdleGraph /\ IdleDeps /\ IdleChain /\ IdleSelect /\ IdleCache

\* reconstruct(name, version) for a version the package has; rc_ret holds
\* what came back ("diverges": the call never returns).
Reconstruct ==
    /\ area = "recon"
    /\ rc_ret = NoRet
    /\ \E impl \in Implementations, v \in 1..MaxVersions :
           /\ rc_ret' = [op |-> "reconstruct", impl |-> impl, version |-> v,
                         result |-> reconstruct(impl, versions, v)]
           /\ versions' = registry_after(impl, versions, v)
    /\ UNCHANGED <<area, cacheVars, selectVars, graphVars, depsVars, sv_ret>>

\* The caller drops the reconstructed record.
DropRecord ==
    /\ area = "recon"
    /\ rc_ret # NoRet
    /\ rc_ret.result.status # "diverges"
    /\ rc_ret' = NoRet
    /\ UNCHANGED <<area, cacheVars, selectVars, graphVars, versions, depsVars, sv_ret>>

NextRecon ==
    \/ Reconstruct
    \/ DropRecord

SpecRecon == InitRecon /\ [][NextRecon]_vars


(***************************************************************************)
(* The replay by name, for stating the claims about reconstruct            *)
(***************************************************************************)
\* The base_version chain of entry v, oldest first, when it ends at an entry
\* without base_version: "root" tells whether it does, "missing" is the
\* version named as base that no entry carries (0: none).
RECURSIVE ChainOf(_, _, _)
ChainOf(vs, v, acc) ==
    LET i == FindVersion(vs, v)
    IN  IF i = 0 THEN [root |-> FALSE, missing |-> v, chain |-> acc]
        ELSE IF i \in Range(acc) THEN [root |-> FALSE, missing |-> 0, chain |-> acc]
        ELSE IF vs[i].base_version = 0 THEN [root |-> TRUE, missing |-> 0, chain |-> <<i>> \o acc]
        ELSE ChainOf(vs, vs[i].base_version, <<i>> \o acc)

Absent == "absent"

\* The last dependency named n in a list.
LastNamed(lst, n) ==
    lst[CHOOSE i \in 1..Len(lst) : lst[i].name = n /\ \A j \in (i + 1)..Len(lst) : lst[j].name # n]

Named(lst, n) == \E i \in 1..Len(lst) : lst[i].name = n

\* One entry applied to a map name -> constraint: added, removed, modified.
RefApply(m, ver) ==
    LET m1 == [n \in DepNames |-> IF Named(ver.added, n)
                                  THEN LastNamed(ver.added, n).version_constraint ELSE m[n]]
        m2 == [n \in DepNames |-> IF n \in Range(ver.removed) THEN Absent ELSE m1[n]]
    IN  [n \in DepNames |-> IF m2[n] # Absent /\ Named(ver.modified, n)
                            THEN LastNamed(ver.modified, n).version_constraint ELSE m2[n]]

RECURSIVE RefReplay(_, _, _, _)
RefReplay(vs, chain, i, m) ==
    IF i > Len(chain) THEN m ELSE RefReplay(vs, chain, i + 1, RefApply(m, vs[chain[i]]))

RefSet(vs, chain) ==
    LET m == RefReplay(vs, chain, 1, [n \in DepNames |-> Absent])
    IN  {[name |-> n, version_constraint |-> m[n]] : n \in {x \in DepNames : m[x] # Absent}}

\* C3: when the base_version chain of the requested entry ends at a root,
\* reconstruct returns exactly the dependencies of the replay by name of
\* that chain, oldest entry first (added, then removed, then modified).
C3_ReconstructIsReplayByName ==
    (rc_ret.op = "reconstruct" /\ ChainOf(versions, rc_ret.version, <<>>).root) =>
        /\ rc_ret.result.status = "ok"
        /\ Range(rc_ret.result.hatch_dependencies)
               = RefSet(versions, ChainOf(versions, rc_ret.version, <<>>).chain)

\* C4: when the chain of the requested entry names a base_version that no
\* entry carries, reconstruct fails with an error naming that version.
C4_MissingBaseFails ==
    (rc_ret.op = "reconstruct" /\ ChainOf(versions, rc_ret.version, <<>>).missing # 0) =>
        /\ rc_ret.result.status = "error"
        /\ rc_ret.result.missing = ChainOf(versions, rc_ret.version, <<>>).missing

\* The names of a list of dependencies are pairwise distinct.
DistinctNames(lst) == \A i, j \in DOMAIN lst : i # j => lst[i].name # lst[j].name

\* C18: the dependency list reconstruct returns never holds two entries with
\* the same name; when a name is added more than once along the chain, the
\* later occurrence replaces the earlier one.
C18_NoDuplicateNames ==
    (rc_ret.op = "reconstruct" /\ rc_ret.result.status = "ok") =>
        DistinctNames(rc_ret.result.hatch_dependencies)

C20_ReconstructTerminates ==
    rc_ret.op = "reconstruct" =>
        /\ rc_ret.result.status # "diverges"
        /\ Len(rc_ret.result.chain) <= Len(versions)

(***************************************************************************)
(* Reachability in the graph, for stating the claims                       *)
(***************************************************************************)
Succ(adj, n) == Range(Get(adj, n))

RECURSIVE ReachFrom(_, _, _)
ReachFrom(adj, frontier, seen) ==
    LET new == (UNION {Succ(adj, n) : n \in frontier}) \ seen
    IN  IF new = {} THEN seen ELSE ReachFrom(adj, new, seen \cup new)

\* The nodes reachable from n through one or more edges.
Descendants(adj, n) == ReachFrom(adj, Succ(adj, n), Succ(adj, n))

OnCycle(adj, n) == n \in Descendants(adj, n)

\* The strongly connected component of a node that lies on a cycle.
Component(adj, n) == {m \in Descendants(adj, n) : n \in Descendants(adj, m)}

\* C1: after detect_cycles, every strongly connected component that holds a
\* cycle has a reported cycle made of its own nodes only, whichever node the
\* scan started from; has_cycles is set whenever there is one.
C1_EveryCyclicComponentReported ==
    g_ret.op = "detect_cycles" =>
        \A n \in get_all_packages(adjacency_list) :
            OnCycle(adjacency_list, n) =>
                /\ g_ret.has_cycles
                /\ \E i \in 1..Len(g_ret.cycles) :
                       Range(g_ret.cycles[i]) \subseteq Component(adjacency_list, n)

\* C1 witness: two cycles in different components, the second not reachable
\* from the first start node, and both reported.
C1_Witness ==
    /\ g_ret.op = "detect_cycles"
    /\ Len(g_ret.cycles) >= 2
    /\ \E a, b \in get_all_packages(adjacency_list) :
           /\ OnCycle(adjacency_list, a) /\ OnCycle(adjacency_list, b)
           /\ g_ret.order[1] = a
           /\ b \notin Descendants(adjacency_list, a)
           /\ a \notin Descendants(adjacency_list, b)

\* The position of a name in a list without repeats, 0 when it is not there.
PosIn(s, x) == IF x \in Range(s) THEN IndexOf(s, x) ELSE 0

HasCycle(adj) == \E n \in get_all_packages(adj) : OnCycle(adj, n)

\* C12: topological_sort returns (true, order) exactly when the graph has no
\* cycle; order then lists every node of the graph exactly once (isolated
\* nodes and names that occur only as edge targets included) with the source
\* of every edge before its target; with a cycle it returns (false, []).
C12_TopologicalSortOrdersAcyclicGraphs ==
    g_ret.op = "topological_sort" =>
        /\ g_ret.ok <=> ~HasCycle(adjacency_list)
        /\ HasCycle(adjacency_list) => g_ret.result = <<>>
        /\ g_ret.ok =>
              /\ Range(g_ret.result) = get_all_packages(adjacency_list)
              /\ Len(g_ret.result) = Cardinality(get_all_packages(adjacency_list))
              /\ \A k \in DOMAIN adjacency_list : \A d \in Range(adjacency_list[k]) :
                     PosIn(g_ret.result, k) < PosIn(g_ret.result, d)

\* C12 witness: an acyclic graph with an edge whose target has no key of its
\* own, an isolated node, and a successful sort.
C12_Witness ==
    /\ g_ret.op = "topological_sort"
    /\ g_ret.ok
    /\ \E k \in DOMAIN adjacency_list : \E d \in Range(adjacency_list[k]) :
           d \notin DOMAIN adjacency_list
    /\ \E k \in DOMAIN adjacency_list :
           /\ adjacency_list[k] = <<>>
           /\ \A j \in DOMAIN adjacency_list : k \notin Range(adjacency_list[j])

\* The only entry of the adjacency list is x in the list of x.
OnlySelfLoop(adj, x) ==
    /\ EdgeCount(adj) = 1
    /\ x \in DOMAIN adj
    /\ adj[x] = <<x>>

\* C13: every list detect_cycles returns is a cycle of the graph (first name
\* = last name, every consecutive pair an edge); so an acyclic graph gives
\* (false, []) and a graph whose only edge is a self-loop on X gives the single
\* cycle [X, X].
C13_ReportedCyclesAreCycles ==
    g_ret.op = "detect_cycles" =>
        /\ \A i \in 1..Len(g_ret.cycles) :
              LET c == g_ret.cycles[i]
              IN  /\ Len(c) >= 2
                  /\ c[1] = c[Len(c)]
                  /\ \A j \in 1..(Len(c) - 1) : c[j + 1] \in Succ(adjacency_list, c[j])
        /\ g_ret.has_cycles <=> g_ret.cycles # <<>>
        /\ ~HasCycle(adjacency_list) => (~g_ret.has_cycles /\ g_ret.cycles = <<>>)
        /\ \A x \in Nodes :
              OnlySelfLoop(adjacency_list, x) => g_ret.cycles = <<(<<x, x>>)>>

\* C13 witness: a reported cycle of two distinct names that does not start at
\* the first name of the DFS path (the slice dropped a prefix).
C13_Witness ==
    /\ g_ret.op = "detect_cycles"
    /\ \E i \in 1..Len(g_ret.cycles) :
           /\ Len(g_ret.cycles[i]) >= 3
           /\ g_ret.cycles[i][1] # g_ret.order[1]
           /\ g_ret.cycles[i][1] \in Descendants(adjacency_list, g_ret.order[1])

\* p follows an edge of the graph at every step.
FollowsEdges(adj, p) == \A i \in 1..(Len(p) - 1) : p[i + 1] \in Succ(adj, p[i])

LeadsFromTo(adj, p, start, target) ==
    /\ Len(p) >= 2
    /\ p[1] = start
    /\ p[Len(p)] = target
    /\ FollowsEdges(adj, p)

\* C21: find_dependency_path(start, target) with start # target returns a
\* list that begins with start, ends with target and follows an edge at
\* every step, no list with these properties is shorter, and it returns None
\* exactly when target cannot be reached from start;
\* find_dependency_path(x, x) returns [x] for every name x.
C21_FindPathIsShortestPath ==
    g_ret.op = "find_dependency_path" =>
        IF g_ret.start = g_ret.target
        THEN g_ret.found /\ g_ret.path = <<g_ret.start>>
        ELSE /\ g_ret.found <=> g_ret.target \in Descendants(adjacency_list, g_ret.start)
             /\ g_ret.found =>
                    /\ LeadsFromTo(adjacency_list, g_ret.path, g_ret.start, g_ret.target)
                    /\ \A q \in SeqsUpTo(Nodes, Len(g_ret.path) - 1) :
                           ~LeadsFromTo(adjacency_list, q, g_ret.start, g_ret.target)

\* C21 witness: the direct edge to the target is returned although a longer
\* path is listed first.
C21_Witness ==
    /\ g_ret.op = "find_dependency_path"
    /\ g_ret.found
    /\ Len(g_ret.path) = 2
    /\ Len(Get(adjacency_list, g_ret.start)) = 2
    /\ Get(adjacency_list, g_ret.start)[2] = g_ret.target
    /\ g_ret.target \in Succ(adjacency_list, Get(adjacency_list, g_ret.start)[1])
    /\ Get(adjacency_list, g_ret.start)[1] \notin {g_ret.start, g_ret.target}

\* C22: get_all_dependencies(name) raises DependencyGraphError whenever the
\* graph has a cycle, reachable from name or not; on a graph without cycles
\* it returns exactly the names reachable from name through one or more
\* edges, and name is not among them.
C22_AllDependenciesIsClosure ==
    g_ret.op = "get_all_dependencies" =>
        /\ g_ret.raised = "DependencyGraphError" <=> HasCycle(adjacency_list)
        /\ ~HasCycle(adjacency_list) =>
               /\ g_ret.raised = ""
               /\ g_ret.result = Descendants(adjacency_list, g_ret.package)
               /\ g_ret.package \notin g_ret.result

\* C22 witness: the call raises for a package that has a dependency and
\* from which no name on a cycle can be reached.
C22_Witness ==
    /\ g_ret.op = "get_all_dependencies"
    /\ g_ret.raised = "DependencyGraphError"
    /\ Descendants(adjacency_list, g_ret.package) # {}
    /\ \A n \in Descendants(adjacency_list, g_ret.package) \cup {g_ret.package} :
           ~OnCycle(adjacency_list, n)

NoDuplicateTargets(adj) ==
    \A k \in DOMAIN adj : \A i, j \in DOMAIN adj[k] : adj[k][i] = adj[k][j] => i = j

\* C23: in a graph that started empty and was built by add_package and
\* add_dependency, no list holds the same target twice, and for every edge
\* in it (each was put there by an earlier add_dependency(from, to)) the
\* same call made again gives the graph as it is.
C23_AddDependencyIdempotent ==
    /\ NoDuplicateTargets(adjacency_list)
    /\ \A p \in Nodes, d \in Nodes :
           d \in Succ(adjacency_list, p) =>
               add_dependency_dict(adjacency_list, p, d) = adjacency_list

\* C23 witness: a list of two targets in a graph that holds as many edges as
\* the bound admits.
C23_Witness ==
    /\ \E k \in DOMAIN adjacency_list : Len(adjacency_list[k]) >= 2
    /\ EdgeCount(adjacency_list) >= 3
    /\ g_ret = NoRet

\* The loop a reported cycle follows, whatever name it starts at: its edges.
CycleEdges(c) == {<<c[i], c[i + 1]>> : i \in 1..(Len(c) - 1)}

Loops(cycles) == {CycleEdges(c) : c \in Range(cycles)}

\* C29: the cycles detect_cycles returns are the same, and as many, in
\* whatever order the set of packages yields the start nodes (checked on the
\* graphs that list no target twice, each cycle taken as the loop it follows
\* whatever name it starts at).
C29_CyclesIndependentOfOrder ==
    (g_ret.op = "detect_cycles" /\ NoDuplicateTargets(adjacency_list)) =>
        \A order \in Perms(get_all_packages(adjacency_list)) :
            LET r == detect_cycles(adjacency_list, order)
            IN  /\ Len(r.cycles) = Len(g_ret.cycles)
                /\ Loops(r.cycles) = Loops(g_ret.cycles)

\* C30: add_package and add_dependency on a graph made from a caller's dict
\* (by the constructor or by from_dependency_dict) change neither that dict
\* nor its lists, nor a dict that to_dict returned before.
C30_CallerDictsUntouched ==
    [][adjacency_list' # adjacency_list =>
          /\ held'.dependencies = held.dependencies
          /\ held'.returned.dict = held.returned.dict]_vars

(***************************************************************************)
(* Dependency validation: the data a call reads                            *)
(*                                                                         *)
(* Two strategies are modelled: "v1_1_0" is DependencyValidationV1_1_0     *)
(* and "v1_2_0" is package/v1_2_0 DependencyValidation.  MaxDecls bounds   *)
(* the length of every dependency list, MaxListed the dependencies that    *)
(* local manifests and registry records list in all, RecursionLimit the    *)
(* depth of nested graph-expansion calls after which the interpreter       *)
(* raises RecursionError.                                                  *)
(***************************************************************************)
LocalNames == {"./a", "./b"}
RemoteNames == {"p"}

\* _is_path_like(name): the name contains '/', '\\' or '.'
_is_path_like(name) == name \in LocalNames

\* A dependency definition.  type is dep['type']['type'], uri is
\* dep['type']['uri'], vc says what the version utilities make of
\* dep['version_constraint']: "none" (absent), "invalid" (rejected by
\* validate_constraint) or "unsat" (well formed, no version satisfies it).
Dep(n, c) ==
    [name |-> n,
     type |-> IF n \in LocalNames THEN "local" ELSE "remote",
     uri |-> IF n \in LocalNames THEN <<"file://", n>> ELSE <<>>,
     vc |-> c]

\* Dependencies listed by a local manifest or a registry record.
ListedDeps == {Dep(n, "none") : n \in LocalNames \cup RemoteNames}
\* Dependencies declared by the package under validation.
DeclaredDeps ==
    ListedDeps \cup {Dep(n, c) : n \in RemoteNames, c \in {"invalid", "unsat"}}

\* A directory of the filesystem / a package of the registry: whether it is
\* there, and the hatch dependencies its metadata lists.
NoEntry == [exists |-> FALSE, deps |-> <<>>]
Entries == {NoEntry} \cup {[exists |-> TRUE, deps |-> d] : d \in SeqsUpTo(ListedDeps, MaxDecls)}

\* The dependencies listed by all entries of f together.
RECURSIVE ListedCount(_, _)
ListedCount(f, K) ==
    IF K = {} THEN 0
    ELSE LET k == CHOOSE x \in K : TRUE IN Len(f[k].deps) + ListedCount(f, K \ {k})

\* ValidationContext(registry_data, allow_local_dependencies) together with
\* the directories its paths resolve to.  registry_data None is
\* has_registry = FALSE.  Manifests and registry records list at most
\* MaxListed dependencies in all.
Contexts ==
    {[allow_local_dependencies |-> al, has_registry |-> hr,
      registry_data |-> rd, files |-> fs, pending_update |-> pu] :
         al \in BOOLEAN, hr \in BOOLEAN, pu \in BOOLEAN,
         rd \in [RemoteNames -> Entries], fs \in [LocalNames -> Entries]}

\* The contexts of callers that set no "pending_update" and whose manifests
\* and records do not list the package under validation (RootContexts below
\* are the others).
RealContexts ==
    {c \in Contexts :
        /\ ~c.pending_update
        /\ c.has_registry \/ \A n \in RemoteNames : c.registry_data[n] = NoEntry
        /\ ListedCount(c.registry_data, RemoteNames) + ListedCount(c.files, LocalNames)
              <= MaxListed}

\* What the registry service knows of a name.
RegEntry(c, name) ==
    IF name \in DOMAIN c.registry_data THEN c.registry_data[name] ELSE NoEntry

\* The name under which manifests and records list the package under
\* validation; it is a registry name.
RootName == "r"

ListedOrRoot == ListedDeps \cup {Dep(RootName, "none")}

\* Entries that list at most one dependency, the root's name included.
RootEntries ==
    {NoEntry} \cup {[exists |-> TRUE, deps |-> d] : d \in SeqsUpTo(ListedOrRoot, 1)}

\* Contexts in which some manifest or record lists the package under
\* validation; "pending_update" is set (to the root's name and metadata) or
\* not.  The entries list at most MaxListed dependencies in all.
RootContexts ==
    {c \in [allow_local_dependencies : BOOLEAN, has_registry : {TRUE},
            registry_data : [RemoteNames \cup {RootName} -> RootEntries],
            files : [LocalNames -> RootEntries], pending_update : BOOLEAN] :
        /\ ListedCount(c.registry_data, RemoteNames \cup {RootName})
              + ListedCount(c.files, LocalNames) <= MaxListed
        /\ \/ \E n \in RemoteNames \cup {RootName} :
                 Dep(RootName, "none") \in Range(c.registry_data[n].deps)
           \/ \E n \in LocalNames : Dep(RootName, "none") \in Range(c.files[n].deps)}

\* registry_service.find_compatible_version(name, constraint) is not None
has_compatible_version(c, dep) ==
    RegEntry(c, dep.name).exists /\ dep.vc \notin {"invalid", "unsat"}

\* pkg_name, _ = context.get_data("pending_update", ("current_package", None))
pkg_name(c) == IF c.pending_update THEN RootName ELSE "current_package"

\* The state of one graph build: the graph, the processed set, whether the
\* filesystem was touched, the names expanded (in order, with repeats),
\* whether RecursionError was raised, and the exception in flight ("" none).
BuildStart(c) ==
    [graph |-> add_package_dict(EmptyDict, pkg_name(c)), processed |-> {},
     fs |-> FALSE, expanded |-> <<>>, rec |-> FALSE, exc |-> ""]

\* A call that would nest deeper than the interpreter allows.
RaiseRecursionError(st) == [st EXCEPT !.exc = "RecursionError", !.rec = TRUE]

(***************************************************************************)
(* DependencyValidationV1_1_0: graph building                              *)
(***************************************************************************)
RECURSIVE _add_local_dependency_graph_v110(_, _, _, _)
RECURSIVE local_deps_v110(_, _, _, _, _, _)

\* _add_local_dependency_graph(dep, graph, context) at call depth d; the
\* except clause swallows every exception raised while the metadata is used.
_add_local_dependency_graph_v110(c, dep, st, d) ==
    IF d > RecursionLimit THEN RaiseRecursionError(st)
    ELSE IF dep.uri = <<>> \/ dep.uri[1] # "file://" THEN st
    ELSE LET dir == c.files[dep.uri[2]]
             s1 == [st EXCEPT !.fs = TRUE]
         IN  IF ~dir.exists THEN s1
             ELSE LET s2 == [s1 EXCEPT !.expanded = Append(@, dep.name)]
                      s3 == local_deps_v110(c, dep.name, dir.deps, 1, s2, d)
                  IN  [s3 EXCEPT !.exc = ""]

\* for local_dep in local_hatch_deps: ...
local_deps_v110(c, dep_name, deps, i, st, d) ==
    IF i > Len(deps) \/ st.exc # "" THEN st
    ELSE LET s1 == [st EXCEPT !.graph = add_dependency_dict(@, dep_name, deps[i].name)]
             s2 == IF deps[i].type = "local"
                   THEN _add_local_dependency_graph_v110(c, deps[i], s1, d + 1)
                   ELSE s1
         IN  local_deps_v110(c, dep_name, deps, i + 1, s2, d)

RECURSIVE _add_remote_dependency_graph_v110(_, _, _, _)
RECURSIVE remote_deps_v110(_, _, _, _, _, _)

\* _add_remote_dependency_graph(dep, graph, context, processed)
_add_remote_dependency_graph_v110(c, dep, st, d) ==
    IF d > RecursionLimit THEN RaiseRecursionError(st)
    ELSE IF dep.name \in st.processed THEN st
    ELSE LET s1 == [st EXCEPT !.processed = @ \cup {dep.name}]
         IN  IF ~has_compatible_version(c, dep) THEN s1
             ELSE LET s2 == [s1 EXCEPT !.expanded = Append(@, dep.name)]
                      s3 == remote_deps_v110(c, dep.name, RegEntry(c, dep.name).deps, 1, s2, d)
                  IN  [s3 EXCEPT !.exc = ""]

\* for remote_dep in remote_hatch_deps: ...
remote_deps_v110(c, dep_name, deps, i, st, d) ==
    IF i > Len(deps) \/ st.exc # "" THEN st
    ELSE LET s1 == [st EXCEPT !.graph = add_dependency_dict(@, dep_name, deps[i].name)]
             s2 == IF deps[i].name \in s1.processed THEN s1
                   ELSE IF deps[i].type = "local"
                   THEN _add_local_dependency_graph_v110(c, deps[i], s1, d + 1)
                   ELSE _add_remote_dependency_graph_v110(c, deps[i], s1, d + 1)
         IN  remote_deps_v110(c, dep_name, deps, i + 1, s2, d)

\* _build_dependency_graph(hatch_dependencies, context): the loop over the
\* declarations, from declaration i on.
RECURSIVE _build_dependency_graph_v110(_, _, _, _)
_build_dependency_graph_v110(c, decls, i, st) ==
    IF i > Len(decls) \/ st.exc # "" THEN st
    ELSE LET s1 == [st EXCEPT !.graph = add_dependency_dict(@, pkg_name(c), decls[i].name)]
             s2 == IF decls[i].type = "local"
                   THEN _add_local_dependency_graph_v110(c, decls[i], s1, 1)
                   ELSE _add_remote_dependency_graph_v110(c, decls[i], s1, 1)
         IN  _build_dependency_graph_v110(c, decls, i + 1, s2)

(***************************************************************************)
(* DependencyValidationV1_1_0: validation                                  *)
(* Every helper returns [is_valid, errors, fs].                             *)
(***************************************************************************)
\* version_validator.validate_constraint(version_constraint)[0]
validate_constraint(vc) == vc # "invalid"

\* registry_service.validate_version_compatibility(name, constraint)[0]
validate_version_compatibility(vc) == vc \notin {"invalid", "unsat"}

Outcome(ok, errs, fs) == [is_valid |-> ok, errors |-> errs, fs |-> fs]

\* An error message: its text and the names it mentions.
Error(text, name) == <<text, <<name>>>>

_validate_local_dependency_v110(c, dep) ==
    IF dep.uri = <<>>
    THEN Outcome(FALSE, <<Error("Local dependency missing URI", dep.name)>>, FALSE)
    ELSE IF dep.uri[1] # "file://"
    THEN Outcome(FALSE, <<Error("Local dependency URI must start with file://", dep.name)>>, FALSE)
    ELSE IF ~c.files[dep.uri[2]].exists
    THEN Outcome(FALSE, <<Error("Local dependency path does not exist", dep.name)>>, TRUE)
    ELSE Outcome(TRUE, <<>>, TRUE)

_validate_registry_dependency_v110(c, dep) ==
    IF ~RegEntry(c, dep.name).exists
    THEN Outcome(FALSE, <<Error("Registry dependency not found", dep.name)>>, FALSE)
    ELSE IF dep.vc # "none" /\ ~validate_version_compatibility(dep.vc)
    THEN Outcome(FALSE, <<Error("No version satisfies constraint", dep.name)>>, FALSE)
    ELSE Outcome(TRUE, <<>>, FALSE)

_validate_single_hatch_dependency_v110(c, dep) ==
    LET bad_vc == dep.vc # "none" /\ ~validate_constraint(dep.vc)
        e1 == IF bad_vc THEN <<Error("Invalid version constraint", dep.name)>> ELSE <<>>
        t == IF dep.type = "local" THEN _validate_local_dependency_v110(c, dep)
             ELSE IF dep.type \in {"remote", "absent"}
             THEN _validate_registry_dependency_v110(c, dep)
             ELSE Outcome(FALSE, <<Error("Unknown dependency type", dep.name)>>, FALSE)
    IN  Outcome(~bad_vc /\ t.is_valid, e1 \o t.errors, t.fs)

\* Step 1 of _validate_hatch_dependencies: for dep in hatch_dependencies
RECURSIVE validate_each_v110(_, _, _, _)
validate_each_v110(c, decls, i, acc) ==
    IF i > Len(decls) THEN acc
    ELSE LET r == _validate_single_hatch_dependency_v110(c, decls[i])
         IN  validate_each_v110(c, decls, i + 1,
                 Outcome(acc.is_valid /\ r.is_valid,
                         acc.errors \o (IF r.is_valid THEN <<>> ELSE r.errors),
                         acc.fs \/ r.fs))

\* A seeded fault: cycles make the result invalid but no error is appended.
CycleErrors_dropped(cycles) == <<>>

\* for cycle in cycles: errors.append("Circular dependency detected: ...")
CycleErrors(cycles) == [k \in 1..Len(cycles) |-> <<"Circular dependency detected", cycles[k]>>]

\* _validate_hatch_dependencies(hatch_dependencies, context): the results
\* it can return, one for each order in which detect_cycles may iterate the
\* set of packages.  A result also carries the build (graph, expansions,
\* RecursionError).
_validate_hatch_dependencies_v110(c, decls) ==
    LET v == validate_each_v110(c, decls, 1, Outcome(TRUE, <<>>, FALSE))
        b == _build_dependency_graph_v110(c, decls, 1, BuildStart(c))
    IN  IF b.exc # ""
        THEN {[is_valid |-> FALSE,
               errors |-> Append(v.errors, Error("Error analyzing dependency graph", b.exc)),
               fs |-> v.fs \/ b.fs, validated |-> Len(decls), build |-> b]}
        ELSE {LET r == detect_cycles(b.graph, order)
              IN  [is_valid |-> v.is_valid /\ ~r.has_cycles,
                   errors |-> v.errors \o (IF r.has_cycles THEN CycleErrors(r.cycles) ELSE <<>>),
                   fs |-> v.fs \/ b.fs, validated |-> Len(decls), build |-> b] :
                 order \in Perms(get_all_packages(b.graph))}

\* _validate_python_dependencies(python_dependencies): for dep in ...
RECURSIVE _validate_python_dependencies(_, _, _)
_validate_python_dependencies(pydeps, i, acc) ==
    IF i > Len(pydeps) THEN acc
    ELSE LET bad == pydeps[i].vc # "none" /\ ~validate_constraint(pydeps[i].vc)
         IN  _validate_python_dependencies(pydeps, i + 1,
                 Outcome(acc.is_valid /\ ~bad,
                         IF bad THEN Append(acc.errors,
                                 Error("Invalid version constraint for Python dependency", pydeps[i].name))
                         ELSE acc.errors,
                         FALSE))

\* What a call of validate_dependencies did: the exception that escaped
\* ("" when it returned), the returned pair, whether the filesystem was
\* touched, how many declarations were validated, and the graph build.
NoBuild ==
    [graph |-> EmptyDict, processed |-> {}, fs |-> FALSE, expanded |-> <<>>,
     rec |-> FALSE, exc |-> ""]

Returned(ok, errs, fs, n, b) ==
    [raised |-> "", is_valid |-> ok, errors |-> errs, fs |-> fs,
     validated |-> n, build |-> b]

Escaped(exception, fs, n, b) ==
    [raised |-> exception, is_valid |-> FALSE, errors |-> <<>>, fs |-> fs,
     validated |-> n, build |-> b]

\* [dep for dep in hatch_dependencies if dep.get('type', {}).get('type') == 'local']
local_deps(decls) == SelectSeq(decls, LAMBDA dep : dep.type = "local")

NotAllowedErrors(deps) ==
    [k \in 1..Len(deps) |-> Error("Local dependency not allowed in this context", deps[k].name)]

\* DependencyValidationV1_1_0.validate_dependencies(metadata, context) with
\* metadata = {hatch_dependencies: decls, python_dependencies: pydeps}: the
\* results it can return.
validate_dependencies_v110(c, decls, pydeps) ==
    IF ~c.has_registry
    THEN {Returned(FALSE, <<<<"No registry data available for dependency validation", <<>>>>>>,
                   FALSE, 0, NoBuild)}
    ELSE IF ~c.allow_local_dependencies /\ local_deps(decls) # <<>>
    THEN {Returned(FALSE, NotAllowedErrors(local_deps(decls)), FALSE, 0, NoBuild)}
    ELSE LET H == IF decls # <<>>
                  THEN _validate_hatch_dependencies_v110(c, decls)
                  ELSE {[is_valid |-> TRUE, errors |-> <<>>, fs |-> FALSE,
                         validated |-> 0, build |-> NoBuild]}
             py == IF pydeps # <<>>
                   THEN _validate_python_dependencies(pydeps, 1, Outcome(TRUE, <<>>, FALSE))
                   ELSE Outcome(TRUE, <<>>, FALSE)
         IN  {Returned(h.is_valid /\ py.is_valid,
                       (IF h.is_valid THEN <<>> ELSE h.errors)
                           \o (IF py.is_valid THEN <<>> ELSE py.errors),
                       h.fs, h.validated, h.build) : h \in H}

(***************************************************************************)
(* package/v1_2_0 DependencyValidation: graph building                     *)
(*                                                                         *)
(* self._infer_dependency_type is called but defined nowhere in the class; *)
(* its base class is not part of the sources.  `infer` says what the call  *)
(* does: "undefined" (AttributeError) or "path_like" ('local' exactly for  *)
(* path-like names).                                                       *)
(***************************************************************************)
InferModes == {"undefined", "path_like"}

FileEntry(c, name) == IF name \in LocalNames THEN c.files[name] ELSE NoEntry

\* raise ValidationError(...) in an except clause: what was raised leaves
\* the function as ValidationError.
Reraise(st) == IF st.exc = "" THEN st ELSE [st EXCEPT !.exc = "ValidationError"]

RECURSIVE _add_local_dependency_graph_v120(_, _, _, _, _)
RECURSIVE local_deps_v120(_, _, _, _, _, _, _)
RECURSIVE _add_remote_dependency_graph_v120(_, _, _, _, _)
RECURSIVE remote_deps_v120(_, _, _, _, _, _, _)

\* _add_local_dependency_graph(dep, graph, context) at call depth d
_add_local_dependency_graph_v120(c, dep, st, d, infer) ==
    IF d > RecursionLimit THEN RaiseRecursionError(st)
    ELSE LET dir == FileEntry(c, dep.name)
             s1 == [st EXCEPT !.fs = TRUE]
         IN  IF ~dir.exists THEN s1
             ELSE LET s2 == [s1 EXCEPT !.expanded = Append(@, dep.name)]
                  IN  Reraise(local_deps_v120(c, dep.name, dir.deps, 1, s2, d, infer))

\* for local_dep in hatch_deps: ...; the remote branch passes no processed
\* set, so the callee starts a new one.
local_deps_v120(c, dep_name, deps, i, st, d, infer) ==
    IF i > Len(deps) \/ st.exc # "" THEN st
    ELSE LET s1 == [st EXCEPT !.graph = add_dependency_dict(@, dep_name, deps[i].name)]
             s2 == IF infer = "undefined" THEN [s1 EXCEPT !.exc = "AttributeError"]
                   ELSE IF _is_path_like(deps[i].name)
                   THEN _add_local_dependency_graph_v120(c, deps[i], s1, d + 1, infer)
                   ELSE LET r == _add_remote_dependency_graph_v120(
                                     c, deps[i], [s1 EXCEPT !.processed = {}], d + 1, infer)
                        IN  [r EXCEPT !.processed = s1.processed]
         IN  local_deps_v120(c, dep_name, deps, i + 1, s2, d, infer)

\* _add_remote_dependency_graph(dep, graph, context, processed)
_add_remote_dependency_graph_v120(c, dep, st, d, infer) ==
    IF d > RecursionLimit THEN RaiseRecursionError(st)
    ELSE IF dep.name \in st.processed THEN st
    ELSE LET s1 == [st EXCEPT !.processed = @ \cup {dep.name}]
         IN  IF ~has_compatible_version(c, dep)
             THEN [s1 EXCEPT !.exc = "ValidationError"]
             ELSE LET s2 == [s1 EXCEPT !.expanded = Append(@, dep.name)]
                  IN  Reraise(remote_deps_v120(c, dep.name, RegEntry(c, dep.name).deps,
                                               1, s2, d, infer))

\* for remote_dep in remote_hatch_deps: ...
remote_deps_v120(c, dep_name, deps, i, st, d, infer) ==
    IF i > Len(deps) \/ st.exc # "" THEN st
    ELSE LET s1 == [st EXCEPT !.graph = add_dependency_dict(@, dep_name, deps[i].name)]
             s2 == IF deps[i].name \in s1.processed THEN s1
                   ELSE IF deps[i].type = "local"
                   THEN _add_local_dependency_graph_v120(c, deps[i], s1, d + 1, infer)
                   ELSE _add_remote_dependency_graph_v120(c, deps[i], s1, d + 1, infer)
         IN  remote_deps_v120(c, dep_name, deps, i + 1, s2, d, infer)

\* The loop of _build_dependency_graph(hatch_dependencies, context), from
\* declaration i on.
RECURSIVE build_each_v120(_, _, _, _, _)
build_each_v120(c, decls, i, st, infer) ==
    IF i > Len(decls) \/ st.exc # "" THEN st
    ELSE LET s1 == [st EXCEPT !.graph = add_dependency_dict(@, pkg_name(c), decls[i].name)]
             s2 == IF _is_path_like(decls[i].name)
                   THEN _add_local_dependency_graph_v120(c, decls[i], s1, 1, infer)
                   ELSE _add_remote_dependency_graph_v120(c, decls[i], s1, 1, infer)
         IN  build_each_v120(c, decls, i + 1, s2, infer)

_build_dependency_graph_v120(c, decls, infer) ==
    Reraise(build_each_v120(c, decls, 1, BuildStart(c), infer))

(***************************************************************************)
(* package/v1_2_0 DependencyValidation: validation                         *)
(***************************************************************************)
_validate_local_dependency_v120(c, dep) ==
    IF ~FileEntry(c, dep.name).exists
    THEN Outcome(FALSE, <<Error("Local dependency path is not a directory", dep.name)>>, TRUE)
    ELSE Outcome(TRUE, <<>>, TRUE)

_validate_registry_dependency_v120(c, dep) ==
    IF ~RegEntry(c, dep.name).exists
    THEN Outcome(FALSE, <<Error("Registry dependency not found in registry", dep.name)>>, FALSE)
    ELSE IF dep.vc # "none" /\ ~validate_version_compatibility(dep.vc)
    THEN Outcome(FALSE, <<Error("No version satisfies constraint", dep.name)>>, FALSE)
    ELSE Outcome(TRUE, <<>>, FALSE)

_validate_single_hatch_dependency_v120(c, dep) ==
    LET bad_vc == dep.vc # "none" /\ ~validate_constraint(dep.vc)
        e1 == IF bad_vc THEN <<Error("Invalid version constraint", dep.name)>> ELSE <<>>
    IN  IF _is_path_like(dep.name) /\ ~c.allow_local_dependencies
        THEN Outcome(FALSE,
                     Append(e1, Error("Local dependency not allowed in this context", dep.name)),
                     FALSE)
        ELSE LET t == IF _is_path_like(dep.name)
                      THEN _validate_local_dependency_v120(c, dep)
                      ELSE _validate_registry_dependency_v120(c, dep)
             IN  Outcome(~bad_vc /\ t.is_valid, e1 \o t.errors, t.fs)

\* Step 1 of _validate_hatch_dependencies: for dep in hatch_dependencies
RECURSIVE validate_each_v120(_, _, _, _)
validate_each_v120(c, decls, i, acc) ==
    IF i > Len(decls) THEN acc
    ELSE LET r == _validate_single_hatch_dependency_v120(c, decls[i])
         IN  validate_each_v120(c, decls, i + 1,
                 Outcome(acc.is_valid /\ r.is_valid,
                         acc.errors \o (IF r.is_valid THEN <<>> ELSE r.errors),
                         acc.fs \/ r.fs))

\* _validate_hatch_dependencies(hatch_dependencies, context): the results
\* it can return, one for each order in which detect_cycles may iterate the
\* set of packages.  A result also carries the build (graph, expansions,
\* RecursionError).
_validate_hatch_dependencies_v120(c, decls, infer) ==
    LET v == validate_each_v120(c, decls, 1, Outcome(TRUE, <<>>, FALSE))
        b == _build_dependency_graph_v120(c, decls, infer)
    IN  IF b.exc # ""
        THEN {[is_valid |-> FALSE,
               errors |-> Append(v.errors, Error("Error analyzing dependency graph", b.exc)),
               fs |-> v.fs \/ b.fs, validated |-> Len(decls), build |-> b]}
        ELSE {LET r == detect_cycles(b.graph, order)
              IN  [is_valid |-> v.is_valid /\ ~r.has_cycles,
                   errors |-> v.errors \o (IF r.has_cycles THEN CycleErrors(r.cycles) ELSE <<>>),
                   fs |-> v.fs \/ b.fs, validated |-> Len(decls), build |-> b] :
                 order \in Perms(get_all_packages(b.graph))}

\* DependencyValidation.validate_dependencies(metadata, context) with
\* metadata = {dependencies: {hatch: decls}}.  With no registry data the
\* raise happens before `errors` is bound, so the except clause's
\* errors.append raises UnboundLocalError.
validate_dependencies_v120(c, decls, infer) ==
    IF ~c.has_registry
    THEN {Escaped("UnboundLocalError", FALSE, 0, NoBuild)}
    ELSE LET H == IF decls # <<>>
                  THEN _validate_hatch_dependencies_v120(c, decls, infer)
                  ELSE {[is_valid |-> TRUE, errors |-> <<>>, fs |-> FALSE,
                         validated |-> 0, build |-> NoBuild]}
         IN  {Returned(h.is_valid, IF h.is_valid THEN <<>> ELSE h.errors,
                       h.fs, h.validated, h.build) : h \in H}

(***************************************************************************)
(* Dependency validation: state machine                                    *)
(***************************************************************************)
PyDeps == {[name |-> "requests", vc |-> "invalid"]}

InitDeps ==
    /\ area = "deps"
    /\ context \in RealContexts
    /\ dv_ret = NoRet
    /\ dependency_resolver = NoRet
    /\ IdleGraph /\ IdleRecon /\ IdleChain /\ IdleSelect /\ IdleCache

\* strategy.validate_dependencies(metadata, context) of the v1.1.0 strategy
ValidateDependenciesV110 ==
    /\ area = "deps"
    /\ dv_ret = NoRet
    /\ \E decls \in SeqsUpTo(DeclaredDeps, MaxDecls), pydeps \in SeqsUpTo(PyDeps, 1) :
         \E result \in validate_dependencies_v110(context, decls, pydeps) :
           dv_ret' = [op |-> "validate_dependencies", ver |-> "v1_1_0",
                      hatch_dependencies |-> decls, python_dependencies |-> pydeps,
                      result |-> result]
    /\ UNCHANGED <<area, cacheVars, selectVars, graphVars, reconVars, context, dependency_resolver, sv_ret>>

\* strategy.validate_dependencies(metadata, context) of the v1.2.0 strategy
ValidateDependenciesV120 ==
    /\ area = "deps"
    /\ dv_ret = NoRet
    /\ \E decls \in SeqsUpTo(DeclaredDeps, MaxDecls), infer \in InferModes :
         \E result \in validate_dependencies_v120(context, decls, infer) :
           dv_ret' = [op |-> "validate_dependencies", ver |-> "v1_2_0",
                      hatch_dependencies |-> decls, python_dependencies |-> <<>>,
                      result |-> result]
    /\ UNCHANGED <<area, cacheVars, selectVars, graphVars, reconVars, context, dependency_resolver, sv_ret>>

\* The caller drops what the call returned; a call that raised ends the run.
DropValidation ==
    /\ area = "deps"
    /\ dv_ret # NoRet
    /\ dv_ret.result.raised = ""
    /\ dv_ret' = NoRet
    /\ UNCHANGED <<area, cacheVars, selectVars, graphVars, reconVars, context, dependency_resolver, sv_ret>>

NextDeps ==
    \/ ValidateDependenciesV110
    \/ ValidateDependenciesV120
    \/ DropValidation

SpecDeps == InitDeps /\ [][NextDeps]_vars

\* The same calls in the contexts whose manifests or records list the
\* package under validation.
InitRoot ==
    /\ area = "deps"
    /\ context \in RootContexts
    /\ dv_ret = NoRet
    /\ dependency_resolver = NoRet
    /\ IdleGraph /\ IdleRecon /\ IdleChain /\ IdleSelect /\ IdleCache

SpecRoot == InitRoot /\ [][NextDeps]_vars

(***************************************************************************)
(* DependencyValidation of schemas/v1_1_0/schema_validators.py (and its    *)
(* copy LegacyDependencyValidation): the older strategy, which validates   *)
(* through a DependencyResolver that the strategy instance keeps.          *)
(***************************************************************************)
\* The declarations both strategies are run on: a registry name whose
\* dep['type'] is {"type": "remote"}, {"type": "registry"} or absent, with
\* the constraint absent, satisfied by a version ("ok"), rejected or
\* satisfied by none.
ComparedDeps ==
    {[name |-> n, type |-> t, uri |-> <<>>, vc |-> v] :
        n \in RemoteNames, t \in {"remote", "registry", "absent"},
        v \in {"none", "ok", "invalid", "unsat"}}

\* DependencyResolver(context.registry_data)
DependencyResolver(c) == [has_registry |-> c.has_registry, registry_data |-> c.registry_data]

\* _get_dependency_resolver(context): the resolver made at the first call
\* is kept.
_get_dependency_resolver(cached, c) == IF cached = NoRet THEN DependencyResolver(c) ELSE cached

\* resolver.find_package_in_registry(package_name)
find_package_in_registry(res, name) ==
    IF res.has_registry /\ name \in DOMAIN res.registry_data
    THEN res.registry_data[name] ELSE NoEntry

\* resolver.get_package_version(name, constraint) is not None
has_package_version(res, dep) ==
    find_package_in_registry(res, dep.name).exists /\ dep.vc \notin {"invalid", "unsat"}

\* resolver._validate_remote_dependency(dep)
_validate_remote_dependency(res, dep) ==
    IF ~res.has_registry
    THEN Outcome(FALSE, <<Error("No registry data available to validate remote dependency",
                                dep.name)>>, FALSE)
    ELSE IF ~find_package_in_registry(res, dep.name).exists
    THEN Outcome(FALSE, <<Error("Remote dependency not found in registry", dep.name)>>, FALSE)
    ELSE IF dep.vc # "none" /\ ~has_package_version(res, dep)
    THEN Outcome(FALSE, <<Error("No version satisfies constraint", dep.name)>>, FALSE)
    ELSE Outcome(TRUE, <<>>, FALSE)

\* resolver.validate_dependencies(dependencies, package_dir): the loop over
\* the queue.  dep.get('type', 'remote') is the dict of the declaration, so
\* neither the 'local' nor the 'remote' branch is taken unless the type is
\* absent.
RECURSIVE resolver_validate_dependencies(_, _, _, _, _)
resolver_validate_dependencies(res, decls, i, validated, acc) ==
    IF i > Len(decls) THEN acc
    ELSE LET dep == decls[i]
         IN  IF dep.name \in validated
             THEN resolver_validate_dependencies(res, decls, i + 1, validated, acc)
             ELSE LET r == IF dep.vc = "invalid"
                           THEN Outcome(FALSE, <<Error("Invalid version constraint", dep.name)>>,
                                        FALSE)
                           ELSE IF dep.type = "absent"
                           THEN _validate_remote_dependency(res, dep)
                           ELSE Outcome(TRUE, <<>>, FALSE)
                  IN  resolver_validate_dependencies(res, decls, i + 1,
                          validated \cup {dep.name},
                          Outcome(acc.is_valid /\ r.is_valid, acc.errors \o r.errors, FALSE))

Names(deps) == [k \in 1..Len(deps) |-> deps[k].name]

\* resolver._build_dependency_graph(dependencies, package_dir,
\* pending_update): the loop over `unprocessed`; st is [graph, nodes], nodes
\* the keys of the graph in the order they were inserted.
RECURSIVE resolver_build_dependency_graph(_, _, _, _, _, _)
resolver_build_dependency_graph(res, c, decls, unprocessed, processed, st) ==
    IF unprocessed = <<>> THEN st
    ELSE LET dep == Head(unprocessed)
         IN  IF dep.name \in processed
             THEN resolver_build_dependency_graph(res, c, decls, Tail(unprocessed),
                                                  processed, st)
             ELSE LET next_deps ==
                          IF c.pending_update /\ dep.name = RootName THEN decls
                          ELSE IF has_package_version(res, dep)
                          THEN find_package_in_registry(res, dep.name).deps
                          ELSE <<>>
                      done == processed \cup {dep.name}
                      NotDone(d) == d.name \notin done
                  IN  resolver_build_dependency_graph(res, c, decls,
                          Tail(unprocessed) \o SelectSeq(next_deps, NotDone), done,
                          [graph |-> (dep.name :> Names(next_deps)) @@ st.graph,
                           nodes |-> Append(st.nodes, dep.name)])

\* The nested dfs(current) of detect_dependency_cycles; st is [path, visited,
\* cycles, found], found the value dfs returns.
RECURSIVE resolver_dfs(_, _, _), resolver_dfs_neighbors(_, _, _, _, _)
resolver_dfs(graph, current, st) ==
    IF current \in Range(st.path)
    THEN [st EXCEPT !.cycles = Append(@, SubSeq(st.path, IndexOf(st.path, current),
                                                Len(st.path)) \o <<current>>),
                    !.found = TRUE]
    ELSE IF current \in st.visited THEN [st EXCEPT !.found = FALSE]
    ELSE LET s1 == [st EXCEPT !.visited = @ \cup {current}, !.path = Append(@, current)]
             s2 == resolver_dfs_neighbors(graph, Get(graph, current), 1, s1, FALSE)
         IN  [s2 EXCEPT !.path = SubSeq(@, 1, Len(@) - 1)]

\* for neighbor in dependency_graph.get(current, []): if dfs(neighbor): ...
resolver_dfs_neighbors(graph, deps, i, st, has_cycle) ==
    IF i > Len(deps) THEN [st EXCEPT !.found = has_cycle]
    ELSE LET s1 == resolver_dfs(graph, deps[i], st)
         IN  resolver_dfs_neighbors(graph, deps, i + 1, s1, has_cycle \/ s1.found)

\* for node in dependency_graph: if find_cycles_for_node(node): ...
RECURSIVE resolver_find_cycles(_, _, _, _)
resolver_find_cycles(graph, nodes, i, acc) ==
    IF i > Len(nodes) THEN acc
    ELSE LET s == resolver_dfs(graph, nodes[i],
                      [path |-> <<>>, visited |-> {}, cycles |-> acc.cycles, found |-> FALSE])
         IN  resolver_find_cycles(graph, nodes, i + 1,
                 [has_cycles |-> acc.has_cycles \/ s.found, cycles |-> s.cycles])

\* resolver.detect_dependency_cycles(dependencies, package_dir, pending_update)
detect_dependency_cycles(res, c, decls) ==
    LET b == resolver_build_dependency_graph(res, c, decls, decls, {},
                                             [graph |-> EmptyDict, nodes |-> <<>>])
        r == resolver_find_cycles(b.graph, b.nodes, 1, [has_cycles |-> FALSE, cycles |-> <<>>])
    IN  [has_cycles |-> r.has_cycles, cycles |-> r.cycles, graph |-> b.graph]

\* DependencyValidation.validate_dependencies(metadata, context) on an
\* instance whose dependency_resolver is `cached`: what it returns and the
\* resolver the instance holds afterwards.
validate_dependencies_resolver(cached, c, decls, pydeps) ==
    IF ~c.allow_local_dependencies /\ local_deps(decls) # <<>>
    THEN [result |-> Returned(FALSE, NotAllowedErrors(local_deps(decls)), FALSE, 0, NoBuild),
          resolver |-> cached]
    ELSE LET res == _get_dependency_resolver(cached, c)
             v == resolver_validate_dependencies(res, decls, 1, {}, Outcome(TRUE, <<>>, FALSE))
             cy == detect_dependency_cycles(res, c, decls)
             h == IF decls = <<>> THEN Outcome(TRUE, <<>>, FALSE)
                  ELSE Outcome(v.is_valid /\ ~cy.has_cycles,
                               v.errors \o (IF cy.has_cycles THEN CycleErrors(cy.cycles)
                                            ELSE <<>>),
                               FALSE)
             py == _validate_python_dependencies(pydeps, 1, Outcome(TRUE, <<>>, FALSE))
             uses == decls # <<>> \/ \E k \in DOMAIN pydeps : pydeps[k].vc # "none"
         IN  [result |-> Returned(h.is_valid /\ py.is_valid, h.errors \o py.errors, FALSE,
                                  Len(decls),
                                  [NoBuild EXCEPT !.graph = IF decls = <<>> THEN EmptyDict
                                                            ELSE cy.graph]),
              resolver |-> IF uses THEN res ELSE cached]

\* strategy.validate_dependencies(metadata, context) of the resolver-based
\* strategy, on the instance the caller keeps.
ValidateDependenciesResolver ==
    /\ area = "deps"
    /\ dv_ret = NoRet
    /\ \E decls \in SeqsUpTo(ComparedDeps, MaxDecls), pydeps \in SeqsUpTo(PyDeps, 1) :
         LET r == validate_dependencies_resolver(dependency_resolver, context, decls, pydeps)
         IN  /\ dv_ret' = [op |-> "validate_dependencies", ver |-> "resolver",
                           hatch_dependencies |-> decls, python_dependencies |-> pydeps,
                           result |-> r.result]
             /\ dependency_resolver' = r.resolver
    /\ UNCHANGED <<area, cacheVars, selectVars, graphVars, reconVars, context, sv_ret>>

NextResolver ==
    \/ ValidateDependenciesResolver
    \/ DropValidation

SpecResolver == InitDeps /\ [][NextResolver]_vars

\* Contexts that differ in their registry data only.
ReuseContexts ==
    {c \in RealContexts :
        c.allow_local_dependencies /\ \A n \in LocalNames : c.files[n] = NoEntry}

InitReuse ==
    /\ area = "deps"
    /\ context \in ReuseContexts
    /\ dv_ret = NoRet
    /\ dependency_resolver = NoRet
    /\ IdleGraph /\ IdleRecon /\ IdleChain /\ IdleSelect /\ IdleCache

\* The caller makes another ValidationContext for its next call.
NewContext ==
    /\ area = "deps"
    /\ dv_ret = NoRet
    /\ context' \in ReuseContexts
    /\ UNCHANGED <<area, cacheVars, selectVars, graphVars, reconVars, dv_ret, dependency_resolver, sv_ret>>

NextReuse ==
    \/ ValidateDependenciesResolver
    \/ NewContext
    \/ DropValidation

SpecReuse == InitReuse /\ [][NextReuse]_vars

(***************************************************************************)
(* Claims on dependency validation                                         *)
(***************************************************************************)
Validated == dv_ret.op = "validate_dependencies"

\* How often name n occurs in the sequence s.
Occurrences(s, n) == Cardinality({i \in DOMAIN s : s[i] = n})

HasErrorText(errors, text) == \E i \in DOMAIN errors : errors[i][1] = text

DeclaresLocal(decls) == \E i \in DOMAIN decls : decls[i].name \in LocalNames

\* C2: building the dependency graph during validate ends without the
\* interpreter's recursion limit being hit, and no dependency name is
\* expanded more than once, whether it is reached as a local or as a remote
\* dependency.
C2_ExpansionTerminatesEachNameOnce ==
    Validated =>
        /\ ~dv_ret.result.build.rec
        /\ \A n \in LocalNames \cup RemoteNames :
               Occurrences(dv_ret.result.build.expanded, n) <= 1

\* C5: with allow_local_dependencies false and a Local dependency among the
\* declarations, dependency validation returns is_valid = false with a
\* 'local dependency not allowed' error and never touches the filesystem.
C5_LocalNotAllowedNoFilesystem ==
    (/\ Validated
     /\ context.has_registry
     /\ ~context.allow_local_dependencies
     /\ DeclaresLocal(dv_ret.hatch_dependencies)) =>
        /\ dv_ret.result.raised = ""
        /\ ~dv_ret.result.is_valid
        /\ HasErrorText(dv_ret.result.errors, "Local dependency not allowed in this context")
        /\ ~dv_ret.result.fs

\* C6: with no registry data in the context, validate_dependencies returns
\* is_valid = false with the single error 'no registry data' before any
\* declaration is validated, and no exception escapes.
C6_NoRegistryDataSingleError ==
    (Validated /\ ~context.has_registry) =>
        /\ dv_ret.result.raised = ""
        /\ ~dv_ret.result.is_valid
        /\ Len(dv_ret.result.errors) = 1
        /\ HasErrorText(dv_ret.result.errors,
                        "No registry data available for dependency validation")
        /\ dv_ret.result.validated = 0

\* The resolved record of a name: its manifest for a path, its registry
\* record otherwise.
Record(c, n) == IF n \in LocalNames THEN c.files[n] ELSE RegEntry(c, n)

Declares(c, n, m) == \E i \in DOMAIN Record(c, n).deps : Record(c, n).deps[i].name = m

\* root declares a, the record of a declares b, the record of b declares root.
RootChain(c, decls, a, b) ==
    /\ a # b
    /\ \E i \in DOMAIN decls : decls[i].name = a /\ decls[i].vc = "none"
    /\ Declares(c, a, b)
    /\ Declares(c, b, RootName)

\* A circular-dependency error whose chain names every element of S.
HasCycleErrorNaming(errors, S) ==
    \E i \in DOMAIN errors :
        errors[i][1] = "Circular dependency detected" /\ S \subseteq Range(errors[i][2])

\* C11: when root declares A, the resolved record of A declares B and the
\* resolved record of B declares root, validate for root returns is_valid =
\* false and an error 'Circular dependency detected' whose chain names root,
\* A and B.
C11_RootCycleReported ==
    (Validated /\ context.allow_local_dependencies) =>
        \A a, b \in LocalNames \cup RemoteNames :
            RootChain(context, dv_ret.hatch_dependencies, a, b) =>
                /\ dv_ret.result.raised = ""
                /\ ~dv_ret.result.is_valid
                /\ HasCycleErrorNaming(dv_ret.result.errors, {RootName, a, b})

\* The errors of a result that are about the declaration named n.
ErrorsNaming(errors, n) == Cardinality({i \in DOMAIN errors : errors[i][2] = <<n>>})

DeclaredOnce(decls, i) == \A j \in DOMAIN decls : decls[j].name = decls[i].name => j = i

\* The declaration names something that is not there: a registry name with
\* no registry entry, or a path with no directory.
Missing(c, dep) ==
    IF dep.name \in LocalNames THEN ~c.files[dep.name].exists ELSE ~RegEntry(c, dep.name).exists

\* C16: a declaration whose version constraint does not parse contributes
\* exactly one error to the result ('Invalid version constraint'), and every
\* other declaration of the list is still validated and contributes its own
\* errors.
C16_InvalidConstraintOneError ==
    (/\ Validated
     /\ dv_ret.result.raised = ""
     /\ context.has_registry
     /\ context.allow_local_dependencies \/ ~DeclaresLocal(dv_ret.hatch_dependencies)) =>
        LET decls == dv_ret.hatch_dependencies
            errors == dv_ret.result.errors
        IN  \A i \in DOMAIN decls :
                (decls[i].vc = "invalid" /\ DeclaredOnce(decls, i)) =>
                    /\ \E k \in DOMAIN errors :
                           errors[k] = Error("Invalid version constraint", decls[i].name)
                    /\ ErrorsNaming(errors, decls[i].name) = 1
                    /\ dv_ret.result.validated = Len(decls)
                    /\ \A j \in DOMAIN decls :
                           (j # i /\ Missing(context, decls[j])) =>
                               ErrorsNaming(errors, decls[j].name) >= 1

\* Declaration i is a registry dependency that graph building cannot
\* resolve: the registry has no version of it that fits.
FailsToResolve(c, decls, i) ==
    ~_is_path_like(decls[i].name) /\ ~has_compatible_version(c, decls[i])

\* C17: when a registry dependency cannot be resolved while the graph is
\* built, only the expansion of that dependency stops: no exception leaves
\* validate_dependencies and the graph build is not abandoned, the edge to
\* every declared name is in the graph, every other declared path that has
\* a manifest is expanded, and cycle detection runs on the graph that was
\* built (a cycle in it is reported).
C17_ResolveFailureStopsOnlyThatExpansion ==
    (/\ Validated
     /\ context.has_registry
     /\ context.allow_local_dependencies \/ ~DeclaresLocal(dv_ret.hatch_dependencies)
     /\ ~dv_ret.result.build.rec
     /\ \E i \in DOMAIN dv_ret.hatch_dependencies :
            FailsToResolve(context, dv_ret.hatch_dependencies, i)) =>
        LET decls == dv_ret.hatch_dependencies
            build == dv_ret.result.build
        IN  /\ dv_ret.result.raised = ""
            /\ build.exc = ""
            /\ ~HasErrorText(dv_ret.result.errors, "Error analyzing dependency graph")
            /\ \A j \in DOMAIN decls :
                   /\ decls[j].name \in Range(build.graph[pkg_name(context)])
                   /\ (_is_path_like(decls[j].name) /\ ~Missing(context, decls[j])) =>
                          decls[j].name \in Range(build.expanded)
            /\ HasCycle(build.graph) =>
                   HasErrorText(dv_ret.result.errors, "Circular dependency detected")

\* C24: validate_dependencies on metadata that declares no dependencies
\* returns (True, []), with or without registry data in the context.
C24_NoDependenciesIsValid ==
    (/\ Validated
     /\ dv_ret.hatch_dependencies = <<>>
     /\ dv_ret.python_dependencies = <<>>) =>
        /\ dv_ret.result.raised = ""
        /\ dv_ret.result.is_valid
        /\ dv_ret.result.errors = <<>>

ResolverValidated == Validated /\ dv_ret.ver = "resolver"

\* Every declaration names a package of the registry with a constraint that
\* some version satisfies.
AllExistingAndSatisfied(c, decls) ==
    /\ decls # <<>>
    /\ c.has_registry
    /\ \A i \in DOMAIN decls : RegEntry(c, decls[i].name).exists /\ decls[i].vc = "ok"

SomeInvalidConstraint(decls) == \E i \in DOMAIN decls : decls[i].vc = "invalid"

\* C25: on the same metadata and context DependencyValidationV1_1_0 returns
\* the is_valid that the resolver-based DependencyValidation (on a new
\* instance) returns, when the declarations name existing registry packages
\* with satisfied constraints, and when a declaration has an invalid
\* constraint; in that case both return false.
C25_StrategiesAgree ==
    (/\ ResolverValidated
     /\ \/ AllExistingAndSatisfied(context, dv_ret.hatch_dependencies)
        \/ SomeInvalidConstraint(dv_ret.hatch_dependencies)) =>
        \A new \in validate_dependencies_v110(context, dv_ret.hatch_dependencies,
                                               dv_ret.python_dependencies) :
            /\ new.is_valid = dv_ret.result.is_valid
            /\ SomeInvalidConstraint(dv_ret.hatch_dependencies) => ~new.is_valid

\* C28: what validate_dependencies returns depends on the metadata and the
\* context of the call only: it is what a new strategy instance returns for
\* them, whatever the instance validated before.
C28_ResultDependsOnCallOnly ==
    ResolverValidated =>
        dv_ret.result = validate_dependencies_resolver(NoRet, context,
                            dv_ret.hatch_dependencies, dv_ret.python_dependencies).result

(***************************************************************************)
SchemaVersions == {"1.1.0", "9.9.9", ""}

\* The manifests handed to validate: metadata.get("package_schema_version",
\* ""), hatch_dependencies, entry_point (FALSE: not specified) and tools.
Metadatas ==
    [package_schema_version : SchemaVersions,
     hatch_dependencies : SeqsUpTo(DeclaredDeps, 1),
     entry_point : BOOLEAN,
     tools : SeqsUpTo({"tool"}, 1)]

\* What the hooks find outside the manifest: what jsonschema makes of it
\* ("unavailable": the schema could not be loaded), whether the context has
\* a package directory, and what is at package_dir / entry_point.
Packages ==
    [schema_check : {"valid", "invalid", "unavailable"},
     package_dir : BOOLEAN,
     entry_file : {"missing", "directory", "syntax_error", "no_function", "defines_tool"}]

\* SchemaValidation.validate_schema(metadata, context)
validate_schema(pkg) ==
    CASE pkg.schema_check = "valid" -> Outcome(TRUE, <<>>, FALSE)
      [] pkg.schema_check = "invalid" ->
             Outcome(FALSE, <<Error("Schema validation error", "metadata")>>, FALSE)
      [] OTHER ->
             Outcome(FALSE, <<Error("Failed to load package schema version", "1.1.0")>>, FALSE)

\* EntryPointValidation.validate_entry_point(metadata, context)
validate_entry_point(md, pkg) ==
    IF ~md.entry_point
    THEN Outcome(FALSE, <<Error("No entry_point specified in metadata", "")>>, FALSE)
    ELSE IF ~pkg.package_dir
    THEN Outcome(FALSE, <<Error("Package directory not provided for entry point validation", "")>>, FALSE)
    ELSE IF pkg.entry_file = "missing"
    THEN Outcome(FALSE, <<Error("Entry point file does not exist", "entry_point")>>, TRUE)
    ELSE IF pkg.entry_file = "directory"
    THEN Outcome(FALSE, <<Error("Entry point is not a file", "entry_point")>>, TRUE)
    ELSE Outcome(TRUE, <<>>, TRUE)

\* for tool in tools: if tool_name not in function_names: errors.append(...)
RECURSIVE check_tools(_, _, _, _)
check_tools(tools, function_names, i, acc) ==
    IF i > Len(tools) THEN acc
    ELSE check_tools(tools, function_names, i + 1,
             IF tools[i] \in function_names THEN acc
             ELSE Outcome(FALSE, Append(acc.errors,
                              Error("Tool not found in entry point", tools[i])), TRUE))

\* ToolsValidation.validate_tools(metadata, context)
validate_tools(md, pkg) ==
    IF md.tools = <<>> THEN Outcome(TRUE, <<>>, FALSE)
    ELSE IF ~md.entry_point
    THEN Outcome(FALSE, <<Error("Entry point required for tool validation", "")>>, FALSE)
    ELSE IF ~pkg.package_dir
    THEN Outcome(FALSE, <<Error("Package directory not provided for tool validation", "")>>, FALSE)
    ELSE IF pkg.entry_file \in {"missing", "directory"}
    THEN Outcome(FALSE, <<Error("Error validating tools", "entry_point")>>, TRUE)
    ELSE IF pkg.entry_file = "syntax_error"
    THEN Outcome(FALSE, <<Error("Syntax error in", "entry_point")>>, TRUE)
    ELSE check_tools(md.tools,
                     IF pkg.entry_file = "defines_tool" THEN {"tool"} ELSE {},
                     1, Outcome(TRUE, <<>>, TRUE))

\* One hook invocation: which hook, and the pair it returned.
Hook(name, r) == [hook |-> name, is_valid |-> r.is_valid, errors |-> r.errors]

\* all_errors.extend(errors) if the hook ran and was not valid
Extend(ran, r) == IF ran /\ ~r.is_valid THEN r.errors ELSE <<>>

\* A seeded fault: the validator claims every schema version.
can_handle_any(schema_version) == TRUE

\* SchemaValidator.can_handle(schema_version)
can_handle(schema_version) == schema_version = "1.1.0"

\* A seeded fault: the tools hook is run whatever the entry_point hook
\* returned.
validate_steps_tools_always(md, pkg, s, d) ==
    LET run_entry == pkg.package_dir
        e == validate_entry_point(md, pkg)
        t == validate_tools(md, pkg)
    IN  [is_valid |-> d.is_valid /\ (run_entry => e.is_valid /\ t.is_valid),
         errors |-> Extend(TRUE, d) \o Extend(run_entry, e) \o Extend(run_entry, t),
         hooks |-> <<Hook("schema", s), Hook("dependencies", d)>>
                     \o (IF run_entry THEN <<Hook("entry_point", e), Hook("tools", t)>>
                         ELSE <<>>)]

\* Steps 2 to 4 of SchemaValidator.validate, given what the schema and the
\* dependencies hooks returned.
validate_steps(md, pkg, s, d) ==
    LET run_entry == pkg.package_dir
        e == validate_entry_point(md, pkg)
        run_tools == run_entry /\ e.is_valid
        t == validate_tools(md, pkg)
    IN  [is_valid |-> /\ d.is_valid
                      /\ (run_entry => e.is_valid)
                      /\ (run_tools => t.is_valid),
         errors |-> Extend(TRUE, d) \o Extend(run_entry, e) \o Extend(run_tools, t),
         hooks |-> <<Hook("schema", s), Hook("dependencies", d)>>
                     \o (IF run_entry THEN <<Hook("entry_point", e)>> ELSE <<>>)
                     \o (IF run_tools THEN <<Hook("tools", t)>> ELSE <<>>)]

\* A seeded fault: a failed schema check does not end the validation.
RECURSIVE validate_no_short_circuit(_, _, _, _, _)
validate_no_short_circuit(n, i, md, c, pkg) ==
    IF ~can_handle(md.package_schema_version)
    THEN IF i < n THEN validate_no_short_circuit(n, i + 1, md, c, pkg)
         ELSE {[is_valid |-> FALSE,
                errors |-> <<Error("Unsupported schema version", md.package_schema_version)>>,
                hooks |-> <<>>]}
    ELSE LET s == validate_schema(pkg)
         IN  {LET r == validate_steps(md, pkg, s, d)
              IN  [r EXCEPT !.is_valid = @ /\ s.is_valid,
                            !.errors = Extend(TRUE, s) \o @] :
                 d \in validate_dependencies_v110(c, md.hatch_dependencies, <<>>)}

\* SchemaValidator.validate(metadata, context) of validator i in a chain of
\* n validators linked by set_next: the results it can return.
RECURSIVE validate(_, _, _, _, _)
validate(n, i, md, c, pkg) ==
    IF ~can_handle(md.package_schema_version)
    THEN IF i < n THEN validate(n, i + 1, md, c, pkg)
         ELSE {[is_valid |-> FALSE,
                errors |-> <<Error("Unsupported schema version", md.package_schema_version)>>,
                hooks |-> <<>>]}
    ELSE LET s == validate_schema(pkg)
         IN  IF ~s.is_valid
             THEN {[is_valid |-> FALSE, errors |-> s.errors, hooks |-> <<Hook("schema", s)>>]}
             ELSE {validate_steps(md, pkg, s, d) :
                      d \in validate_dependencies_v110(c, md.hatch_dependencies, <<>>)}

(***************************************************************************)
(* HatchPackageValidator.validate_package and its checks                   *)
(***************************************************************************)
\* What validate_package finds at package_dir.
DirStates == {"missing", "no_metadata", "unparsable", "ok"}

\* What self.validate_dependencies(metadata, available_packages) does under
\* _run_validation: returns valid, returns errors, or raises.
LegacyDeps == {"valid", "invalid", "raises"}

\* The available_packages argument of validate_package: NoRet is None (the
\* default), otherwise the names of the packages of the list.
AvailablePackages == {NoRet} \cup {[names |-> S] : S \in SUBSET RemoteNames}

\* _validate_local_dependencies(dependencies): TRUE when no error is appended.
\* The declarations of the model carry a uri that starts with file://.
_validate_local_dependencies(c, deps) ==
    \A i \in DOMAIN deps : deps[i].vc # "invalid" /\ c.files[deps[i].name].exists

\* _validate_remote_dependencies(dependencies, available_packages): the dict
\* comprehension over available_packages raises TypeError for None, whatever
\* the dependencies are.
_validate_remote_dependencies_legacy(deps, available_packages) ==
    IF available_packages = NoRet THEN "raises"
    ELSE IF \A i \in DOMAIN deps :
                /\ deps[i].vc \notin {"invalid", "unsat"}
                /\ deps[i].name \in available_packages.names
    THEN "valid" ELSE "invalid"

\* HatchPackageValidator.validate_dependencies(metadata, available_packages):
\* one of LegacyDeps.  dep.get('type') is compared with the strings 'local'
\* and 'remote'.
validate_dependencies_legacy(c, allow_local_dependencies, decls, available_packages) ==
    LET local_dependencies == SelectSeq(decls, LAMBDA d : d.type = "local")
        remote_dependencies == SelectSeq(decls, LAMBDA d : d.type = "remote")
        remote == _validate_remote_dependencies_legacy(remote_dependencies, available_packages)
    IN  IF remote = "raises" THEN "raises"
        ELSE IF /\ allow_local_dependencies \/ local_dependencies = <<>>
                /\ _validate_local_dependencies(c, local_dependencies)
                /\ remote = "valid"
        THEN "valid" ELSE "invalid"

\* _run_validation(self.validate_dependencies, metadata, available_packages)
run_validate_dependencies(legacy) ==
    CASE legacy = "valid" -> Outcome(TRUE, <<>>, FALSE)
      [] legacy = "invalid" -> Outcome(FALSE, <<Error("Remote dependency not found", "p")>>, FALSE)
      [] OTHER -> Outcome(FALSE, <<Error("Validation error", "")>>, FALSE)

\* validate_entry_point_exists(package_dir, entry_point)
validate_entry_point_exists(pkg) ==
    IF pkg.entry_file = "missing"
    THEN Outcome(FALSE, <<Error("Entry point file does not exist", "entry_point")>>, TRUE)
    ELSE IF pkg.entry_file = "directory"
    THEN Outcome(FALSE, <<Error("Entry point is not a file", "entry_point")>>, TRUE)
    ELSE Outcome(TRUE, <<>>, TRUE)

\* validate_tools_exist(package_dir, entry_point, tools)
validate_tools_exist(md, pkg) ==
    IF md.tools = <<>> THEN Outcome(TRUE, <<>>, FALSE)
    ELSE IF pkg.entry_file \in {"missing", "directory"}
    THEN Outcome(FALSE, <<Error("Error validating tools", "entry_point")>>, TRUE)
    ELSE IF pkg.entry_file = "syntax_error"
    THEN Outcome(FALSE, <<Error("Syntax error in", "entry_point")>>, TRUE)
    ELSE check_tools(md.tools,
                     IF pkg.entry_file = "defines_tool" THEN {"tool"} ELSE {},
                     1, Outcome(TRUE, <<>>, TRUE))

Section(ok, errs) == [valid |-> ok, errors |-> errs]

\* results = {...} as validate_package initialises it
NewResults ==
    [metadata_schema |-> Section(FALSE, <<>>), entry_point |-> Section(FALSE, <<>>),
     tools |-> Section(FALSE, <<>>), dependencies |-> Section(TRUE, <<>>)]

\* validate_package(package_dir, available_packages): the returned pair and
\* the checks that were run, in order.
validate_package(md, pkg, dir_state, legacy) ==
    IF dir_state # "ok"
    THEN [is_valid |-> FALSE, hooks |-> <<>>,
          results |-> [NewResults EXCEPT !.metadata_schema.errors =
                         <<Error(CASE dir_state = "missing" -> "Package directory does not exist"
                                   [] dir_state = "no_metadata" -> "hatch_metadata.json not found"
                                   [] OTHER -> "Failed to parse metadata", "")>>]]
    ELSE LET s == validate_schema(pkg)
             r1 == [NewResults EXCEPT !.metadata_schema = Section(s.is_valid, s.errors)]
             d == run_validate_dependencies(legacy)
             r2 == [r1 EXCEPT !.dependencies = Section(d.is_valid, d.errors)]
             e == validate_entry_point_exists(pkg)
             r3 == [r2 EXCEPT !.entry_point = Section(e.is_valid, e.errors)]
             t == validate_tools_exist(md, pkg)
             r4 == IF md.tools # <<>> THEN [r3 EXCEPT !.tools = Section(t.is_valid, t.errors)]
                   ELSE [r3 EXCEPT !.tools.valid = TRUE]
         IN  IF ~s.is_valid
             THEN [is_valid |-> FALSE, hooks |-> <<Hook("schema", s)>>, results |-> r1]
             ELSE IF ~md.entry_point
             THEN [is_valid |-> FALSE,
                   hooks |-> <<Hook("schema", s), Hook("dependencies", d)>>,
                   results |-> [r2 EXCEPT !.entry_point.errors =
                                  <<Error("No entry_point specified in metadata", "")>>]]
             ELSE [is_valid |-> /\ d.is_valid
                                /\ e.is_valid
                                /\ (md.tools # <<>> => t.is_valid),
                   hooks |-> <<Hook("schema", s), Hook("dependencies", d),
                               Hook("entry_point", e)>>
                               \o (IF md.tools # <<>> THEN <<Hook("tools", t)>> ELSE <<>>),
                   results |-> r4]

(***************************************************************************)
(* Validator chain: state machine                                          *)
(***************************************************************************)
\* The contexts the chain is run in: manifests and registry records there
\* list no further dependencies.
ChainContexts ==
    {c \in RealContexts :
        ListedCount(c.registry_data, RemoteNames) + ListedCount(c.files, LocalNames) = 0}

InitChain ==
    /\ area = "chain"
    /\ context \in ChainContexts
    /\ sv_ret = NoRet
    /\ dv_ret = NoRet
    /\ dependency_resolver = NoRet
    /\ IdleGraph /\ IdleRecon /\ IdleSelect /\ IdleCache

\* validator.validate(metadata, context) on the head of a chain of n
\* validators
Validate ==
    /\ area = "chain"
    /\ sv_ret = NoRet
    /\ \E n \in 1..MaxChain, md \in Metadatas, pkg \in Packages :
         \E result \in validate(n, 1, md, context, pkg) :
           sv_ret' = [op |-> "validate", chain |-> n, metadata |-> md,
                      package |-> pkg, result |-> result]
    /\ UNCHANGED <<area, cacheVars, selectVars, graphVars, reconVars, depsVars>>

\* HatchPackageValidator.validate_package(package_dir, available_packages)
ValidatePackage ==
    /\ area = "chain"
    /\ sv_ret = NoRet
    /\ \E md \in Metadatas, pkg \in Packages, dir_state \in DirStates,
          allow_local \in BOOLEAN, available_packages \in AvailablePackages :
         LET legacy == validate_dependencies_legacy(context, allow_local,
                                                    md.hatch_dependencies, available_packages)
         IN  sv_ret' = [op |-> "validate_package", metadata |-> md, package |-> pkg,
                        dir_state |-> dir_state,
                        available_packages |-> available_packages,
                        result |-> validate_package(md, pkg, dir_state, legacy)]
    /\ UNCHANGED <<area, cacheVars, selectVars, graphVars, reconVars, depsVars>>

\* The caller drops what the validator returned.
DropOutcome ==
    /\ area = "chain"
    /\ sv_ret # NoRet
    /\ sv_ret' = NoRet
    /\ UNCHANGED <<area, cacheVars, selectVars, graphVars, reconVars, depsVars>>

NextChain ==
    \/ Validate
    \/ ValidatePackage
    \/ DropOutcome

SpecChain == InitChain /\ [][NextChain]_vars

\* Dependency validation and the validator chain together.
InitValidation == InitDeps \/ InitChain

NextValidation ==
    \/ ValidateDependenciesV110
    \/ ValidateDependenciesV120
    \/ DropValidation
    \/ Validate
    \/ ValidatePackage
    \/ DropOutcome

SpecValidation == InitValidation /\ [][NextValidation]_vars

(***************************************************************************)
(* Claims on the validator chain                                           *)
(***************************************************************************)
ChainValidated == sv_ret.op = "validate"
PackageValidated == sv_ret.op = "validate_package"

HooksRun(hooks) == {hooks[i].hook : i \in DOMAIN hooks}

\* Every error of every hook that ran and failed is in the list errs.
FailedHookErrorsIn(hooks, errs) ==
    \A i \in DOMAIN hooks :
        ~hooks[i].is_valid =>
            \A k \in DOMAIN hooks[i].errors :
                \E j \in DOMAIN errs : errs[j] = hooks[i].errors[k]

\* C7: for a manifest whose schema version no validator in the chain
\* handles, validate returns is_valid = false with exactly one 'unsupported
\* schema version' error and invokes no hook.
C7_UnsupportedVersionNoHooks ==
    (ChainValidated /\ sv_ret.metadata.package_schema_version # "1.1.0") =>
        /\ ~sv_ret.result.is_valid
        /\ Len(sv_ret.result.errors) = 1
        /\ sv_ret.result.errors[1][1] = "Unsupported schema version"
        /\ sv_ret.result.hooks = <<>>

C7_Witness ==
    /\ ChainValidated
    /\ sv_ret.chain = MaxChain
    /\ sv_ret.metadata.package_schema_version = "9.9.9"
    /\ sv_ret.package.schema_check = "valid"
    /\ sv_ret.result.hooks = <<>>
    /\ Len(sv_ret.result.errors) = 1

\* The schema hook is reached and succeeds / fails.
SchemaReached ==
    \/ ChainValidated /\ sv_ret.metadata.package_schema_version = "1.1.0"
    \/ PackageValidated /\ sv_ret.dir_state = "ok"
SchemaSucceeds == SchemaReached /\ sv_ret.package.schema_check = "valid"
SchemaFails == SchemaReached /\ sv_ret.package.schema_check # "valid"

HookOutcome(name) ==
    LET hooks == sv_ret.result.hooks
    IN  hooks[CHOOSE i \in DOMAIN hooks : hooks[i].hook = name]

\* C8 as claimed: when the schema hook succeeds, the dependencies,
\* entry_point and tools hooks are all run, each whatever the others
\* returned, and the returned errors contain the errors of every hook that
\* failed.
C8_AllHooksRunIndependently ==
    SchemaSucceeds =>
        /\ HooksRun(sv_ret.result.hooks) = {"schema", "dependencies", "entry_point", "tools"}
        /\ ChainValidated => FailedHookErrorsIn(sv_ret.result.hooks, sv_ret.result.errors)

\* The hooks validate runs after a successful schema hook: dependencies
\* always, entry_point only with a package directory, tools only after an
\* entry_point hook that succeeded.
ValidateHookOrder ==
    LET hooks == sv_ret.result.hooks
        entry_ran == sv_ret.package.package_dir
        tools_ran == entry_ran /\ HookOutcome("entry_point").is_valid
    IN  /\ Len(hooks) = 2 + (IF entry_ran THEN 1 ELSE 0) + (IF tools_ran THEN 1 ELSE 0)
        /\ hooks[1].hook = "schema" /\ hooks[2].hook = "dependencies"
        /\ entry_ran => hooks[3].hook = "entry_point"
        /\ tools_ran => hooks[4].hook = "tools"

\* The checks validate_package runs after a successful schema check:
\* dependencies always, the entry point check only when the metadata names
\* an entry point, the tools check only when it does and tools are declared
\* (also after an entry point check that failed).
ValidatePackageHookOrder ==
    LET hooks == sv_ret.result.hooks
        entry_ran == sv_ret.metadata.entry_point
        tools_ran == entry_ran /\ sv_ret.metadata.tools # <<>>
    IN  /\ Len(hooks) = 2 + (IF entry_ran THEN 1 ELSE 0) + (IF tools_ran THEN 1 ELSE 0)
        /\ hooks[1].hook = "schema" /\ hooks[2].hook = "dependencies"
        /\ entry_ran => hooks[3].hook = "entry_point"
        /\ tools_ran => hooks[4].hook = "tools"

PackageResultsHoldFailedHooks ==
    \A i \in DOMAIN sv_ret.result.hooks :
        LET h == sv_ret.result.hooks[i]
            section == CASE h.hook = "schema" -> sv_ret.result.results.metadata_schema
                         [] h.hook = "dependencies" -> sv_ret.result.results.dependencies
                         [] h.hook = "entry_point" -> sv_ret.result.results.entry_point
                         [] OTHER -> sv_ret.result.results.tools
        IN  ~h.is_valid => section.errors = h.errors

\* C8 as amended: when the schema hook succeeds the dependencies hook is
\* always run; validate runs the entry_point hook only when the context has
\* a package directory and the tools hook only when the entry_point hook ran
\* and succeeded; validate_package runs the entry point check only when the
\* metadata names an entry point and the tools check only when it does and
\* tools are declared.  The errors of every hook that ran and failed are
\* returned, whatever the other hooks returned.
C8_HooksRunAsGated ==
    SchemaSucceeds =>
        /\ ChainValidated =>
              /\ ValidateHookOrder
              /\ FailedHookErrorsIn(sv_ret.result.hooks, sv_ret.result.errors)
        /\ PackageValidated =>
              /\ ValidatePackageHookOrder
              /\ PackageResultsHoldFailedHooks

\* validate after a successful schema hook: the dependencies hook and the
\* entry_point hook both failed, the tools hook was skipped although tools
\* are declared, and the errors of both failed hooks are returned.
C8_Witness ==
    /\ ChainValidated /\ SchemaSucceeds
    /\ sv_ret.metadata.tools # <<>>
    /\ HooksRun(sv_ret.result.hooks) = {"schema", "dependencies", "entry_point"}
    /\ ~HookOutcome("dependencies").is_valid
    /\ ~HookOutcome("entry_point").is_valid
    /\ Len(sv_ret.result.errors) >= 2

\* C9: when the schema hook fails, the validation returns at once with
\* is_valid = false and only the schema errors; the dependencies, entry_point
\* and tools hooks are not invoked.
C9_SchemaFailureShortCircuits ==
    SchemaFails =>
        /\ ~sv_ret.result.is_valid
        /\ HooksRun(sv_ret.result.hooks) = {"schema"}
        /\ ChainValidated =>
              /\ sv_ret.result.errors = validate_schema(sv_ret.package).errors
              /\ sv_ret.result.errors # <<>>
        /\ PackageValidated =>
              sv_ret.result.results =
                  [NewResults EXCEPT !.metadata_schema.errors =
                                         validate_schema(sv_ret.package).errors]

\* A manifest that fails the schema check although its dependencies, entry
\* point and tools would each report errors of their own.
C9_Witness ==
    /\ ChainValidated /\ SchemaFails
    /\ sv_ret.metadata.hatch_dependencies # <<>>
    /\ sv_ret.metadata.tools # <<>>
    /\ sv_ret.package.package_dir
    /\ sv_ret.package.entry_file = "missing"
    /\ Len(sv_ret.result.errors) = 1

\* C27: validate_package called without an available_packages list, on a
\* package whose metadata loads, passes the schema check and declares no
\* hatch dependencies, reports the dependencies section as valid, and
\* returns valid when the entry point and tools sections are valid too.
C27_NoDependenciesValidWithoutAvailablePackages ==
    (/\ PackageValidated
     /\ sv_ret.available_packages = NoRet
     /\ sv_ret.dir_state = "ok"
     /\ sv_ret.metadata.hatch_dependencies = <<>>
     /\ sv_ret.result.results.metadata_schema.valid) =>
        /\ sv_ret.result.results.dependencies.valid
        /\ (/\ sv_ret.result.results.entry_point.valid
            /\ sv_ret.result.results.tools.valid) => sv_ret.result.is_valid

(***************************************************************************)
(* Claims on both                                                          *)
(***************************************************************************)
\* C10: whenever dependency validation or the validator chain's validate
\* returns, is_valid is true exactly when the returned error list is empty.
C10_ValidIffNoErrors ==
    /\ (Validated /\ dv_ret.result.raised = "") =>
           (dv_ret.result.is_valid <=> Len(dv_ret.result.errors) = 0)
    /\ ChainValidated =>
           (sv_ret.result.is_valid <=> Len(sv_ret.result.errors) = 0)

\* Dependency validation of declarations that are each valid but lead into
\* a cycle: the result is invalid and carries the cycle as its only error.
C10_Witness ==
    /\ Validated
    /\ dv_ret.result.raised = ""
    /\ ~dv_ret.result.is_valid
    /\ Len(dv_ret.result.errors) = 1
    /\ HasErrorText(dv_ret.result.errors, "Circular dependency detected")

(***************************************************************************)
(* Registry: version selection                                             *)
(*                                                                         *)
(* A version string is kept as its '.'-separated parts, each part as its   *)
(* decimal digits: "1.10.0" is <<(<<1>>), (<<1, 0>>), (<<0>>)>>.  None is  *)
(* the empty sequence.  What the constraint machinery answers for each     *)
(* listed version (is_version_compatible, SpecifierSet.contains) is an     *)
(* input of a call: the set of versions the constraint admits.             *)
(***************************************************************************)
None == <<>>

Digits(n) == IF n < 10 THEN <<n>> ELSE <<n \div 10, n % 10>>

VersionString(a, b, c) == <<Digits(a), Digits(b), Digits(c)>>

VersionStrings ==
    {VersionString(1, 0, 0), VersionString(1, 2, 0), VersionString(1, 9, 0),
     VersionString(1, 10, 0), VersionString(2, 0, 0)}

\* int(p) for a part made of digits
RECURSIVE to_int(_)
to_int(p) == IF p = <<>> THEN 0 ELSE 10 * to_int(SubSeq(p, 1, Len(p) - 1)) + p[Len(p)]

\* A seeded fault: a part is ranked by its first digit only.
version_key_first_digit(x) == [i \in DOMAIN x |-> x[i][1]]

\* key=lambda x: tuple(int(p) if p.isdigit() else p for p in x.split('.'))
version_key(x) == [i \in DOMAIN x |-> to_int(x[i])]

\* packaging's Version(x) / version.parse(x) as a sort key: the release
\* numbers, trailing zeros dropped.
RECURSIVE strip_zeros(_)
strip_zeros(t) ==
    IF t # <<>> /\ t[Len(t)] = 0 THEN strip_zeros(SubSeq(t, 1, Len(t) - 1)) ELSE t

Version(x) == strip_zeros([i \in DOMAIN x |-> to_int(x[i])])

\* a < b for two tuples of integers
RECURSIVE tuple_less(_, _)
tuple_less(a, b) ==
    IF a = <<>> THEN b # <<>>
    ELSE IF b = <<>> THEN FALSE
    ELSE IF a[1] # b[1] THEN a[1] < b[1]
    ELSE tuple_less(Tail(a), Tail(b))

\* sorted(lst, key=..., reverse=...) / lst.sort(...): keys[i] is the key of
\* lst[i]; the sort is stable in both directions.
sorted_by(lst, keys, reverse) ==
    LET Before(j, i) == IF reverse THEN tuple_less(keys[i], keys[j])
                        ELSE tuple_less(keys[j], keys[i])
        Pos(i) == 1 + Cardinality({j \in DOMAIN lst :
                                      Before(j, i) \/ (keys[j] = keys[i] /\ j < i)})
    IN  [k \in DOMAIN lst |-> lst[CHOOSE i \in DOMAIN lst : Pos(i) = k]]

\* Lists of pairwise distinct version strings.
VersionLists ==
    {l \in SeqsUpTo(VersionStrings, MaxVersions) :
        \A i, j \in DOMAIN l : i # j => l[i] # l[j]}

\* One package of the registry: its "latest_version" (None: no marker) and
\* the version strings of its "versions" list, in list order.
PackageDatas ==
    {[latest_version |-> l, versions |-> vs] :
        l \in VersionStrings \cup {None}, vs \in VersionLists}

RealPackageDatas ==
    {d \in PackageDatas : d.latest_version = None \/ d.latest_version \in Range(d.versions)}

\* get_package_versions: [v.get('version') for v in versions if v.get('version')]
get_package_versions(pkg) == pkg.versions

\* RegistryAccessor.find_compatible_version (registry/v1_1_0)
find_compatible_version_accessor(pkg, constrained, admitted) ==
    LET vs == get_package_versions(pkg)
        In(v) == v \in admitted
        compatible_versions ==
            SelectSeq(sorted_by(vs, [i \in DOMAIN vs |-> version_key(vs[i])], TRUE), In)
    IN  IF vs = <<>> THEN None
        ELSE IF ~constrained THEN vs[Len(vs)]
        ELSE IF compatible_versions # <<>> THEN compatible_versions[1]
        ELSE None

\* RegistryAccessorV1_1_0.find_compatible_version (utils/registry_client)
find_compatible_version_client(pkg, constrained, admitted) ==
    LET vs == get_package_versions(pkg)
        In(v) == v \in admitted
        filtered == SelectSeq(vs, In)
        compatible_versions ==
            sorted_by(filtered, [i \in DOMAIN filtered |-> Version(filtered[i])], FALSE)
    IN  IF vs = <<>> THEN None
        ELSE IF ~constrained THEN vs[Len(vs)]
        ELSE IF compatible_versions # <<>> THEN compatible_versions[Len(compatible_versions)]
        ELSE None

\* DependencyResolver.get_package_version; the version of the entry it
\* returns, None for None.
get_package_version(pkg, constrained, admitted) ==
    LET vs == pkg.versions
        In(v) == v \in admitted
        filtered == SelectSeq(vs, In)
        valid_versions ==
            sorted_by(filtered, [i \in DOMAIN filtered |-> Version(filtered[i])], TRUE)
    IN  IF ~constrained
        THEN IF pkg.latest_version = None THEN None
             ELSE IF pkg.latest_version \in Range(vs) THEN pkg.latest_version
             ELSE None
        ELSE IF valid_versions = <<>> THEN None
        ELSE valid_versions[1]

find_compatible_version(impl, pkg, constrained, admitted) ==
    CASE impl = "accessor" -> find_compatible_version_accessor(pkg, constrained, admitted)
      [] impl = "client" -> find_compatible_version_client(pkg, constrained, admitted)
      [] impl = "resolver" -> get_package_version(pkg, constrained, admitted)

InitSelect ==
    /\ area = "select"
    /\ package_data \in RealPackageDatas
    /\ fc_ret = NoRet
    /\ IdleGraph /\ IdleRecon /\ IdleDeps /\ IdleChain /\ IdleCache

\* find_compatible_version(name, constraint) / get_package_version(name,
\* constraint); constrained is FALSE when no constraint is given.
FindCompatibleVersion ==
    /\ area = "select"
    /\ fc_ret = NoRet
    /\ \E impl \in Implementations, constrained \in BOOLEAN,
          admitted \in SUBSET Range(package_data.versions) :
           /\ constrained \/ admitted = {}
           /\ fc_ret' = [op |-> "find_compatible_version", impl |-> impl,
                         constrained |-> constrained, admitted |-> admitted,
                         result |-> find_compatible_version(impl, package_data,
                                                            constrained, admitted)]
    /\ UNCHANGED <<area, cacheVars, graphVars, reconVars, depsVars, sv_ret, package_data>>

\* The caller drops the selected version.
DropVersion ==
    /\ area = "select"
    /\ fc_ret # NoRet
    /\ fc_ret' = NoRet
    /\ UNCHANGED <<area, cacheVars, graphVars, reconVars, depsVars, sv_ret, package_data>>

NextSelect ==
    \/ FindCompatibleVersion
    \/ DropVersion

SpecSelect == InitSelect /\ [][NextSelect]_vars

\* Numeric dot-separated ordering of two version strings of three parts.
NumericLess(v, w) ==
    \E i \in 1..3 :
        /\ to_int(v[i]) < to_int(w[i])
        /\ \A j \in 1..(i - 1) : to_int(v[j]) = to_int(w[j])

\* The greatest of a set of versions, None for the empty set.
NumericMax(S) ==
    IF S = {} THEN None ELSE CHOOSE v \in S : \A w \in S : ~NumericLess(v, w)

\* C14: with a constraint, version selection returns the listed version that
\* the constraint admits and that is greatest in numeric dot-separated order
\* (1.10.0 above 1.9.0), and none when no version is listed or admitted; of
\* [1.0.0, 1.2.0, 2.0.0] with 1.0.0 and 1.2.0 admitted it returns 1.2.0.
C14_SelectsGreatestAdmittedVersion ==
    (fc_ret.op = "find_compatible_version" /\ fc_ret.constrained) =>
        /\ fc_ret.result = NumericMax(Range(package_data.versions) \cap fc_ret.admitted)
        /\ (/\ package_data.versions = <<VersionString(1, 0, 0), VersionString(1, 2, 0),
                                         VersionString(2, 0, 0)>>
            /\ fc_ret.admitted = {VersionString(1, 0, 0), VersionString(1, 2, 0)})
               => fc_ret.result = VersionString(1, 2, 0)

\* C14 witness: 1.9.0 and 1.10.0 are both admitted, 1.10.0 is listed first,
\* and 1.10.0 is returned.
C14_Witness ==
    /\ fc_ret.op = "find_compatible_version"
    /\ fc_ret.constrained
    /\ {VersionString(1, 9, 0), VersionString(1, 10, 0)} \subseteq fc_ret.admitted
    /\ package_data.versions[1] = VersionString(1, 10, 0)
    /\ fc_ret.result = VersionString(1, 10, 0)

\* C15: without a constraint, find_compatible_version returns the version the
\* registry declares as latest, or the numerically greatest listed version
\* when there is no latest marker, in whatever order the versions are listed.
C15_NoConstraintReturnsLatest ==
    (fc_ret.op = "find_compatible_version" /\ ~fc_ret.constrained) =>
        fc_ret.result = IF package_data.latest_version # None
                        THEN package_data.latest_version
                        ELSE NumericMax(Range(package_data.versions))

(***************************************************************************)
(* Registry clients: CachedRegistryClient over LocalFileRegistryClient     *)
(*                                                                         *)
(* A RegistryPackageInfo is kept as the package's record in the registry   *)
(* data it was built from; "None" is None.  The registry file is NoRet     *)
(* when nothing readable is at registry_file_path.                         *)
(***************************************************************************)
CachedNames == {"p", "q"}
PackageInfos == {"None", "v1"}
NoCache == [k \in {} |-> "None"]

RegistryFiles == {NoRet} \cup {[packages |-> f] : f \in [CachedNames -> PackageInfos]}

\* LocalFileRegistryClient(registry_file_path)
LocalFileRegistryClient ==
    [registry_data |-> [n \in CachedNames |-> "None"], _loaded |-> FALSE]

\* LocalFileRegistryClient.load_registry_data(): raises RegistryError when
\* the file cannot be read, otherwise keeps its content and returns True.
base_load_registry_data(base, file) ==
    IF file = NoRet
    THEN [raised |-> TRUE, result |-> FALSE, base |-> base]
    ELSE [raised |-> FALSE, result |-> TRUE,
          base |-> [registry_data |-> file.packages, _loaded |-> TRUE]]

\* LocalFileRegistryClient.get_package_info(package_name)
base_get_package_info(base, file, package_name) ==
    LET l == IF base._loaded THEN [raised |-> FALSE, result |-> TRUE, base |-> base]
             ELSE base_load_registry_data(base, file)
    IN  [raised |-> l.raised, base |-> l.base,
         value |-> IF l.raised THEN "None" ELSE l.base.registry_data[package_name]]

\* LocalFileRegistryClient.get_all_packages()
base_get_all_packages(base, file) ==
    LET l == IF base._loaded THEN [raised |-> FALSE, result |-> TRUE, base |-> base]
             ELSE base_load_registry_data(base, file)
    IN  [raised |-> l.raised, base |-> l.base,
         value |-> IF l.raised THEN {}
                   ELSE {n \in CachedNames : l.base.registry_data[n] # "None"}]

\* CachedRegistryClient(base_client)
CachedRegistryClient(base) ==
    [base_client |-> base, _package_cache |-> NoCache,
     _all_packages_cache |-> NoRet, _cache_valid |-> FALSE]

\* _invalidate_cache() forgetting only the flag.
_invalidate_cache_flag_only(cc) ==
    [cc EXCEPT !._cache_valid = FALSE]

\* CachedRegistryClient._invalidate_cache()
_invalidate_cache(cc) ==
    [cc EXCEPT !._package_cache = NoCache,
               !._all_packages_cache = NoRet,
               !._cache_valid = FALSE]

\* CachedRegistryClient.load_registry_data(): the client after the call and
\* what the call did.
load_registry_data(cc, file) ==
    LET r == base_load_registry_data(cc.base_client, file)
        loaded == [cc EXCEPT !.base_client = r.base]
    IN  [raised |-> r.raised, result |-> r.result,
         client |-> IF ~r.raised /\ r.result THEN _invalidate_cache(loaded) ELSE loaded]

\* CachedRegistryClient.get_package_info(package_name): queried tells whether
\* base_client.get_package_info was called.
get_package_info(cc, file, package_name) ==
    IF ~cc._cache_valid \/ package_name \notin DOMAIN cc._package_cache
    THEN LET r == base_get_package_info(cc.base_client, file, package_name)
             asked == [cc EXCEPT !.base_client = r.base]
         IN  IF r.raised
             THEN [raised |-> TRUE, queried |-> TRUE, value |-> "None", client |-> asked]
             ELSE [raised |-> FALSE, queried |-> TRUE, value |-> r.value,
                   client |-> [asked EXCEPT
                       !._package_cache =
                           [n \in DOMAIN @ \cup {package_name} |->
                               IF n = package_name THEN r.value ELSE @[n]],
                       !._cache_valid = TRUE]]
    ELSE [raised |-> FALSE, queried |-> FALSE,
          value |-> cc._package_cache[package_name], client |-> cc]

\* CachedRegistryClient.get_all_packages()
cached_get_all_packages(cc, file) ==
    IF ~cc._cache_valid \/ cc._all_packages_cache = NoRet
    THEN LET r == base_get_all_packages(cc.base_client, file)
             asked == [cc EXCEPT !.base_client = r.base]
         IN  IF r.raised
             THEN [raised |-> TRUE, value |-> {}, client |-> asked]
             ELSE [raised |-> FALSE, value |-> r.value,
                   client |-> [asked EXCEPT !._all_packages_cache = [names |-> r.value],
                                            !._cache_valid = TRUE]]
    ELSE [raised |-> FALSE, value |-> cc._all_packages_cache.names, client |-> cc]

\* The names looked up since the last reset, after a call of
\* get_package_info(package_name) that returned: a name looked up for the
\* first time is noted with the answer.
noted(seen, package_name, value) ==
    IF package_name \in DOMAIN seen THEN seen
    ELSE [n \in DOMAIN seen \cup {package_name} |->
             IF n = package_name THEN value ELSE seen[n]]

(***************************************************************************)
(* Registry clients: state machine                                         *)
(***************************************************************************)
InitCache ==
    /\ area = "cache"
    /\ registry_file \in RegistryFiles
    /\ cached_client = CachedRegistryClient(LocalFileRegistryClient)
    /\ looked_up = NoCache
    /\ cr_ret = NoRet
    /\ IdleGraph /\ IdleRecon /\ IdleDeps /\ IdleChain /\ IdleSelect

\* cached_client.load_registry_data()
LoadRegistryData ==
    /\ area = "cache"
    /\ cr_ret = NoRet
    /\ LET r == load_registry_data(cached_client, registry_file)
       IN  /\ cached_client' = r.client
           /\ looked_up' = IF ~r.raised /\ r.result THEN NoCache ELSE looked_up
           /\ cr_ret' = [op |-> "load_registry_data", raised |-> r.raised,
                         result |-> r.result]
    /\ UNCHANGED <<area, selectVars, graphVars, reconVars, depsVars, sv_ret, registry_file>>

\* cached_client.get_package_info(package_name), and
\* cached_client.package_exists(package_name), which calls it and tests the
\* result against None.
GetPackageInfo ==
    /\ area = "cache"
    /\ cr_ret = NoRet
    /\ \E package_name \in CachedNames, op \in {"get_package_info", "package_exists"} :
         LET r == get_package_info(cached_client, registry_file, package_name)
         IN  /\ cached_client' = r.client
             /\ looked_up' = IF r.raised THEN looked_up
                             ELSE noted(looked_up, package_name, r.value)
             /\ cr_ret' = [op |-> op, package_name |-> package_name,
                           raised |-> r.raised, queried |-> r.queried,
                           value |-> r.value, before |-> looked_up,
                           exists |-> r.value # "None"]
    /\ UNCHANGED <<area, selectVars, graphVars, reconVars, depsVars, sv_ret, registry_file>>

\* cached_client.get_all_packages()
GetAllPackages ==
    /\ area = "cache"
    /\ cr_ret = NoRet
    /\ LET r == cached_get_all_packages(cached_client, registry_file)
       IN  /\ cached_client' = r.client
           /\ cr_ret' = [op |-> "get_all_packages", raised |-> r.raised,
                         value |-> r.value]
    /\ UNCHANGED <<area, selectVars, graphVars, reconVars, depsVars, sv_ret,
                   registry_file, looked_up>>

\* cached_client.clear_cache()
ClearCache ==
    /\ area = "cache"
    /\ cr_ret = NoRet
    /\ cached_client' = _invalidate_cache(cached_client)
    /\ looked_up' = NoCache
    /\ cr_ret' = [op |-> "clear_cache"]
    /\ UNCHANGED <<area, selectVars, graphVars, reconVars, depsVars, sv_ret, registry_file>>

\* The holder of the base client calls base_client.load_registry_data()
\* itself; a RegistryError leaves everything as it was.
BaseLoadRegistryData ==
    /\ area = "cache"
    /\ cr_ret = NoRet
    /\ LET r == base_load_registry_data(cached_client.base_client, registry_file)
       IN  cached_client' = [cached_client EXCEPT !.base_client = r.base]
    /\ cached_client' # cached_client
    /\ UNCHANGED <<area, selectVars, graphVars, reconVars, depsVars, sv_ret,
                   registry_file, looked_up, cr_ret>>

\* The registry file is rewritten or removed.
RegistryFileChanges ==
    /\ area = "cache"
    /\ cr_ret = NoRet
    /\ registry_file' \in RegistryFiles \ {registry_file}
    /\ UNCHANGED <<area, selectVars, graphVars, reconVars, depsVars, sv_ret,
                   cached_client, looked_up, cr_ret>>

\* The caller drops what the client returned.
DropAnswer ==
    /\ area = "cache"
    /\ cr_ret # NoRet
    /\ cr_ret' = NoRet
    /\ UNCHANGED <<area, selectVars, graphVars, reconVars, depsVars, sv_ret,
                   cached_client, registry_file, looked_up>>

NextCache ==
    \/ LoadRegistryData
    \/ GetPackageInfo
    \/ GetAllPackages
    \/ ClearCache
    \/ BaseLoadRegistryData
    \/ RegistryFileChanges
    \/ DropAnswer

SpecCache == InitCache /\ [][NextCache]_vars

(***************************************************************************)
(* Claims on the caching registry client                                   *)
(***************************************************************************)
PackageInfoCalled == cr_ret.op \in {"get_package_info", "package_exists"}
PackageInfoReturned == PackageInfoCalled /\ ~cr_ret.raised

\* C26: in any sequence of calls on a CachedRegistryClient, a call of
\* get_package_info(name) asks the base client exactly when name has not
\* been looked up since the most recent successful load_registry_data or
\* clear_cache (or since creation); otherwise it returns what the base
\* client answered at that earlier lookup, without calling the base client.
C26_BaseQueriedOncePerName ==
    PackageInfoCalled =>
        /\ cr_ret.queried <=> cr_ret.package_name \notin DOMAIN cr_ret.before
        /\ ~cr_ret.queried =>
               /\ ~cr_ret.raised
               /\ cr_ret.value = cr_ret.before[cr_ret.package_name]

\* get_package_info answers from the cache with a value the base client no
\* longer holds (the base client was reloaded directly in between).
C26_Witness ==
    /\ PackageInfoReturned
    /\ cr_ret.op = "get_package_info"
    /\ ~cr_ret.queried
    /\ cr_ret.package_name \in DOMAIN cr_ret.before
    /\ cr_ret.value = "v1"
    /\ cached_client.base_client.registry_data[cr_ret.package_name] = "None"

====
